---- MODULE Spec2Model ----
(***************************************************************************)
(* Model of the AI Aircon Manager optimizer                                *)
(* (custom_components/ai_aircon_manager/optimizer.py, __init__.py).        *)
(*                                                                         *)
(* Units: temperatures are integers in tenths of a degree Celsius          *)
(* (22.0 C is 220); averages are never divided out, every comparison of    *)
(* an average is cross-multiplied by the number of valid readings, so the  *)
(* arithmetic is exact.  Time is in seconds.  Cover positions are integer  *)
(* percentages.  Python None is the string "None" for string-valued        *)
(* fields, NoReading for temperatures and Never for timestamps.            *)
(***************************************************************************)
EXTENDS Integers, Sequences, FiniteSets, TLC

VARIABLES
    \* ---- AirconOptimizer fields (persist across cycles) ----
    cfg,                    \* constructor arguments (set once)
    hvac_mode,              \* self.hvac_mode
    startup_time,           \* self._startup_time
    last_ai_optimization,   \* self._last_ai_optimization
    last_recommendations,   \* self._last_recommendations
    last_main_fan_speed,    \* self._last_main_fan_speed
    last_error,             \* self._last_error
    error_count,            \* self._error_count
    last_ai_response,       \* self._last_ai_response
    current_schedule,       \* self._current_schedule
    outdoor_temperature,    \* self._outdoor_temperature
    \* ---- locals of the running async_optimize() ----
    pc,                     \* position of the cycle
    room_states,            \* room_states
    main_ac_running,        \* main_ac_running
    main_climate_state,     \* main_climate_state
    needs_ac,               \* needs_ac
    recommendations,        \* recommendations
    main_fan_speed,         \* main_fan_speed
    room_idx,               \* index of the next room of the application loop
    ai_outcome,             \* how the advisory call of the latest cycle ended ("None": it made none)
    current_time,           \* current_time, read at the gate
    rooms_stable,           \* all_rooms_stable
    \* ---- the host runtime and the advisory service ----
    now,                    \* time.time()
    wall_clock,             \* datetime.now() as the schedule resolver last read it
    outdoor_states,         \* the outdoor sensor and weather entity as last looked up
    last_command,           \* the service call the latest step dispatched, if any
    cover_state,            \* the state of the cover the latest step looked up, if any
    notified,               \* titles of the notifications the latest step sent
    advisor_prev_call,      \* time of the advisory request before the latest
    advisor_last_call,      \* time of the latest advisory request
    result,                 \* the record the latest cycle returned (NoResult while one runs)
    \* ---- the configuration flows and the configuration entry ----
    flow_rooms,             \* ConfigFlow._rooms
    room_configs,           \* config_entry.data[CONF_ROOM_CONFIGS] ("None" before the entry exists)
    room_to_edit,           \* OptionsFlowHandler._room_to_edit
    entry_data,             \* config_entry.data: the stored settings, as the constructor's arguments
    \* ---- a second invocation of async_optimize ----
    other                   \* the position and locals of the invocation that is not running

vars == <<cfg, hvac_mode, startup_time, last_ai_optimization, last_recommendations,
          last_main_fan_speed, last_error, error_count, last_ai_response,
          current_schedule, outdoor_temperature,
          pc, room_states, main_ac_running, main_climate_state, needs_ac,
          recommendations, main_fan_speed, room_idx, ai_outcome, current_time,
          rooms_stable, now, wall_clock, outdoor_states, last_command, cover_state, notified,
          advisor_prev_call, advisor_last_call, result,
          flow_rooms, room_configs, room_to_edit, other, entry_data>>

-----------------------------------------------------------------------------
(* Bounds of the model *)

\* time advances in steps of TimeStep seconds, at most MaxTicks times
MaxTicks == 2
\* failures are injected only while the error counter is below MaxErr
MaxErr == 1
\* the configured AI interval in minutes (entry.data "update_interval")
update_interval == 1

(* Program constants *)

\* const.py: DEFAULT_STARTUP_DELAY, seconds
DEFAULT_STARTUP_DELAY == 120
\* const.py: DEFAULT_TARGET_TEMPERATURE (22 C)
DEFAULT_TARGET_TEMPERATURE == 220
\* const.py: DEFAULT_TEMPERATURE_DEADBAND (0.5 C)
DEFAULT_TEMPERATURE_DEADBAND == 5
\* const.py: DEFAULT_WEATHER_INFLUENCE_FACTOR (0.5), in tenths
DEFAULT_WEATHER_INFLUENCE_FACTOR == 5
\* const.py: DEFAULT_AC_TURN_ON_THRESHOLD (1.0 C)
DEFAULT_AC_TURN_ON_THRESHOLD == 10
\* const.py: DEFAULT_AC_TURN_OFF_THRESHOLD (2.0 C)
DEFAULT_AC_TURN_OFF_THRESHOLD == 20
\* optimizer.py: main_fan_high_threshold default (2.5 C)
DEFAULT_MAIN_FAN_HIGH_THRESHOLD == 25
\* optimizer.py: main_fan_medium_threshold default (1.0 C)
DEFAULT_MAIN_FAN_MEDIUM_THRESHOLD == 10
\* seconds per minute, __init__.py: update_interval * 60
SecondsPerMinute == 60

\* Python None for an optional temperature
NoReading == -9999
\* Python None for an optional timestamp
Never == -1

\* the model's clock advances a minute at a time
TimeStep == SecondsPerMinute
MaxTime == MaxTicks * TimeStep

-----------------------------------------------------------------------------
(* Small helpers *)

Abs(x) == IF x < 0 THEN 0 - x ELSE x
Min2(a, b) == IF a < b THEN a ELSE b
Max2(a, b) == IF a > b THEN a ELSE b

RECURSIVE SumOver(_, _)
SumOver(f, S) ==
    IF S = {} THEN 0
    ELSE LET x == CHOOSE y \in S : TRUE IN f[x] + SumOver(f, S \ {x})

MaxOver(f, S) == CHOOSE m \in {f[x] : x \in S} : \A x \in S : f[x] <= m
MinOver(f, S) == CHOOSE m \in {f[x] : x \in S} : \A x \in S : f[x] >= m

\* the empty dict {}
EmptyMap == [k \in {} |-> 0]

-----------------------------------------------------------------------------
(* Configuration *)

\* room_configs, in configured order
RoomOrder == <<"A", "B">>
Rooms == {RoomOrder[i] : i \in 1..Len(RoomOrder)}

\* f"{room_name}_enabled"
OverrideKey(room) == room \o "_enabled"

\* one entry of `schedules` (config_flow.py): times are <<hour, minute>>, the
\* target is in tenths of a degree
Schedule(name, enabled, days, start_time, end_time, target_temp) ==
    [ schedule_name |-> name, schedule_enabled |-> enabled, schedule_days |-> days,
      schedule_start_time |-> start_time, schedule_end_time |-> end_time,
      schedule_target_temp |-> target_temp ]
\* no schedule: None
NoSchedule == Schedule("None", FALSE, {}, <<0, 0>>, <<0, 0>>, NoReading)

\* datetime.now(): the weekday name and the time of day
Clock(day, hour, minute) == [day |-> day, hour |-> hour, minute |-> minute]
\* the clock was not read
\* what hass.states holds for the outdoor sensor (its state in tenths of its
\* unit, NoReading when the entity is absent, unknown, unavailable or not a
\* number) and for the weather entity (its temperature attribute in tenths)
OutdoorStates(sensor, unit, weather) ==
    [sensor |-> sensor, unit |-> unit, weather |-> weather]
NoOutdoorStates == OutdoorStates(NoReading, "C", NoReading)

NoClock == Clock("None", 0, 0)

BaseConfig ==
    [ main_climate_entity          |-> FALSE,
      main_fan_entity              |-> FALSE,
      main_fan_is_climate          |-> FALSE,
      auto_control_main_ac         |-> FALSE,
      auto_control_ac_temperature  |-> FALSE,
      enable_humidity_control      |-> FALSE,
      enable_notifications         |-> TRUE,
      enable_scheduling            |-> FALSE,
      schedules                    |-> <<>>,
      enable_weather_adjustment    |-> FALSE,
      weather_entity               |-> FALSE,
      outdoor_temp_sensor          |-> FALSE,
      weather_influence_factor     |-> DEFAULT_WEATHER_INFLUENCE_FACTOR,
      room_overrides               |-> EmptyMap,
      hvac_mode                    |-> "cool",
      target_temperature           |-> DEFAULT_TARGET_TEMPERATURE,
      temperature_deadband         |-> DEFAULT_TEMPERATURE_DEADBAND,
      ac_turn_on_threshold         |-> DEFAULT_AC_TURN_ON_THRESHOLD,
      ac_turn_off_threshold        |-> DEFAULT_AC_TURN_OFF_THRESHOLD,
      main_fan_high_threshold      |-> DEFAULT_MAIN_FAN_HIGH_THRESHOLD,
      main_fan_medium_threshold    |-> DEFAULT_MAIN_FAN_MEDIUM_THRESHOLD,
      ai_optimization_interval     |-> update_interval * SecondsPerMinute ]

\* the arguments AirconOptimizer is constructed with in the cycle model
Configs ==
    { \* rooms only: no main unit, no main fan
      BaseConfig,
      \* main unit with on/off auto-control, main fan, room A taken out of AI control
      [BaseConfig EXCEPT !.main_climate_entity = TRUE,
                         !.main_fan_entity = TRUE,
                         !.auto_control_main_ac = TRUE,
                         !.room_overrides = [k \in {OverrideKey("A"), OverrideKey("B")} |->
                                                 k = OverrideKey("B")]],
      \* main unit with setpoint and humidity (HVAC mode) control, climate-type fan
      [BaseConfig EXCEPT !.main_climate_entity = TRUE,
                         !.main_fan_entity = TRUE,
                         !.main_fan_is_climate = TRUE,
                         !.auto_control_ac_temperature = TRUE,
                         !.enable_humidity_control = TRUE,
                         !.enable_notifications = FALSE],
      \* heating, main unit monitored but not controlled
      [BaseConfig EXCEPT !.main_climate_entity = TRUE,
                         !.hvac_mode = "heat"],
      \* rooms only, scheduling enabled with one schedule for every day, all day
      [BaseConfig EXCEPT !.enable_scheduling = TRUE,
                         !.schedules = << Schedule("Day", TRUE, {"all"}, <<0, 0>>, <<23, 59>>,
                                                   DEFAULT_TARGET_TEMPERATURE + 20) >>],
      \* rooms only, weather adjustment from a weather entity
      [BaseConfig EXCEPT !.enable_weather_adjustment = TRUE,
                         !.weather_entity = TRUE],
      \* main unit with on/off auto-control and humidity (HVAC mode) control
      [BaseConfig EXCEPT !.main_climate_entity = TRUE,
                         !.auto_control_main_ac = TRUE,
                         !.enable_humidity_control = TRUE] }

-----------------------------------------------------------------------------
(* Room states *)

\* one entry of room_states (optimizer.py _collect_room_states)
RoomState(current, target) ==
    [current_temperature |-> current, target_temperature |-> target]

\* _collect_room_states: temps[r] is the normalised reading of room r's sensor
\* (NoReading when the sensor is missing, unknown, unavailable or not a number)
collect_room_states(temps, effective_target) ==
    [r \in Rooms |-> RoomState(temps[r], effective_target)]

\* the list comprehension `temps` / `valid_temps`: the rooms with a reading
ValidRooms(rs) == {r \in DOMAIN rs : rs[r].current_temperature # NoReading}

CurrentTemps(rs) == [r \in DOMAIN rs |-> rs[r].current_temperature]

\* effective target as the evaluators extract it: the first room's target
first_room_target(rs) ==
    IF DOMAIN rs = {} THEN cfg.target_temperature
    ELSE rs[RoomOrder[1]].target_temperature

-----------------------------------------------------------------------------
(* Schedule and weather: the effective target *)

\* the value a call leaves with: returned, or raised as the named exception
Returned(value) == [raised |-> "None", ret |-> value]
Raised(exception) == [raised |-> exception, ret |-> NoSchedule]

\* _get_active_schedule. Line 135 imports CONF_SCHEDULE_ENABLED inside the
\* function, which makes the name a local of the whole function; line 127 reads
\* it in the first iteration of the loop, before the import has run.
get_active_schedule(clock) ==
    IF ~cfg.enable_scheduling \/ cfg.schedules = <<>>
    THEN Returned(NoSchedule)
    ELSE Raised("UnboundLocalError")

\* the outdoor readings a cycle may find (weather entity attribute "temperature")
OutdoorReads == {NoReading, 350}

\* _get_outdoor_temperature, line 194: (temp - 32) * 5.0 / 9.0 in tenths (exact
\* for the Fahrenheit readings the model draws)
fahrenheit_to_celsius(temp) == ((temp - 320) * 5) \div 9

\* _get_outdoor_temperature: the dedicated sensor first, then the weather entity
get_outdoor_temperature(states) ==
    IF cfg.outdoor_temp_sensor /\ states.sensor # NoReading
    THEN IF states.unit = "F" THEN fahrenheit_to_celsius(states.sensor) ELSE states.sensor
    ELSE IF cfg.weather_entity /\ states.weather # NoReading THEN states.weather
    ELSE NoReading

\* round(x, 1) of a value given in thousandths of a degree, to tenths: ties go
\* to the even tenth (the sums the model forms are exact in binary)
py_round_1(thousandths) ==
    LET q == thousandths \div 100
        r == thousandths % 100
    IN  IF r > 50 THEN q + 1
        ELSE IF r < 50 THEN q
        ELSE IF q % 2 = 0 THEN q ELSE q + 1

\* the adjustment with 30 degrees itself counted as hot
calculate_weather_adjusted_target_hot_at_30(base_target, outdoor_temp) ==
    LET adjustment ==
            IF outdoor_temp >= 300 THEN 0 - 50 * cfg.weather_influence_factor
            ELSE IF outdoor_temp > 250 THEN 0 - 25 * cfg.weather_influence_factor
            ELSE IF outdoor_temp < 150 THEN 50 * cfg.weather_influence_factor
            ELSE IF outdoor_temp < 200 THEN 25 * cfg.weather_influence_factor
            ELSE 0
    IN  py_round_1(base_target * 100 + adjustment)

\* _calculate_weather_adjusted_target: temperatures in tenths, the adjustment in
\* thousandths (0.5 * factor is 50 * factor-in-tenths thousandths)
calculate_weather_adjusted_target(base_target, outdoor_temp) ==
    LET adjustment ==
            IF outdoor_temp > 300 THEN 0 - 50 * cfg.weather_influence_factor
            ELSE IF outdoor_temp > 250 THEN 0 - 25 * cfg.weather_influence_factor
            ELSE IF outdoor_temp < 150 THEN 50 * cfg.weather_influence_factor
            ELSE IF outdoor_temp < 200 THEN 25 * cfg.weather_influence_factor
            ELSE 0
    IN  py_round_1(base_target * 100 + adjustment)

\* async_optimize, lines 254-262: the target after the schedule
scheduled_target(active_schedule) ==
    IF active_schedule # NoSchedule /\ active_schedule.schedule_target_temp # NoReading
    THEN active_schedule.schedule_target_temp
    ELSE cfg.target_temperature

\* the adjustment applied without the test for a missing outdoor reading
weather_target_unchecked(target, outdoor_temp) ==
    IF cfg.enable_weather_adjustment
    THEN calculate_weather_adjusted_target(target, outdoor_temp)
    ELSE target

\* async_optimize, lines 273-280: the target after the weather adjustment
weather_target(target, outdoor_temp) ==
    IF cfg.enable_weather_adjustment /\ outdoor_temp # NoReading
    THEN calculate_weather_adjusted_target(target, outdoor_temp)
    ELSE target

-----------------------------------------------------------------------------
(* Stability and need evaluation *)

\* the stability test with the deadband boundary excluded
check_rooms_stable_strict(rs) ==
    IF DOMAIN rs = {} THEN FALSE
    ELSE \A r \in DOMAIN rs :
            /\ rs[r].current_temperature # NoReading
            /\ rs[r].target_temperature # NoReading
            /\ Abs(rs[r].current_temperature - rs[r].target_temperature)
                   < cfg.temperature_deadband

\* _check_rooms_stable
check_rooms_stable(rs) ==
    IF DOMAIN rs = {} THEN FALSE
    ELSE \A r \in DOMAIN rs :
            /\ rs[r].current_temperature # NoReading
            /\ rs[r].target_temperature # NoReading
            /\ Abs(rs[r].current_temperature - rs[r].target_temperature)
                   <= cfg.temperature_deadband

\* the cool branch with the turn-on comparison strict
ac_needed_cool_strict(ac_currently_on, n, sum, max_temp, effective_target) ==
    IF ac_currently_on
    THEN LET turn_off == /\ sum - n * effective_target <= (0 - cfg.ac_turn_off_threshold) * n
                         /\ max_temp <= effective_target
         IN  ~turn_off
    ELSE sum - n * effective_target > cfg.ac_turn_on_threshold * n

\* the heat branch turning off on the average alone
ac_needed_heat_average_only(ac_currently_on, n, sum, min_temp, effective_target) ==
    IF ac_currently_on
    THEN ~(sum - n * effective_target >= cfg.ac_turn_off_threshold * n)
    ELSE sum - n * effective_target <= (0 - cfg.ac_turn_on_threshold) * n

\* the else branch with the deadband comparison not strict
ac_needed_auto_inclusive(n, sum, effective_target) ==
    Abs(sum - n * effective_target) >= cfg.temperature_deadband * n

\* _check_if_ac_needed, cool branch; n readings, their sum, max, and the target
ac_needed_cool(ac_currently_on, n, sum, max_temp, effective_target) ==
    IF ac_currently_on
    THEN LET turn_off == /\ sum - n * effective_target <= (0 - cfg.ac_turn_off_threshold) * n
                         /\ max_temp <= effective_target
         IN  ~turn_off
    ELSE sum - n * effective_target >= cfg.ac_turn_on_threshold * n

\* _check_if_ac_needed, heat branch
ac_needed_heat(ac_currently_on, n, sum, min_temp, effective_target) ==
    IF ac_currently_on
    THEN LET turn_off == /\ sum - n * effective_target >= cfg.ac_turn_off_threshold * n
                         /\ min_temp >= effective_target
         IN  ~turn_off
    ELSE sum - n * effective_target <= (0 - cfg.ac_turn_on_threshold) * n

\* _check_if_ac_needed, the else branch (auto, and any mode other than cool/heat)
ac_needed_auto(n, sum, effective_target) ==
    Abs(sum - n * effective_target) > cfg.temperature_deadband * n

\* the need decision keeping the unit's state when no room has a reading
check_if_ac_needed_keeps_without_data(rs, ac_currently_on) ==
    LET effective_target == first_room_target(rs)
        valid == ValidRooms(rs)
        temps == CurrentTemps(rs)
        n     == Cardinality(valid)
        sum   == SumOver(temps, valid)
    IN  IF valid = {} THEN ac_currently_on
        ELSE IF hvac_mode = "cool"
             THEN ac_needed_cool(ac_currently_on, n, sum, MaxOver(temps, valid), effective_target)
        ELSE IF hvac_mode = "heat"
             THEN ac_needed_heat(ac_currently_on, n, sum, MinOver(temps, valid), effective_target)
        ELSE ac_needed_auto(n, sum, effective_target)

\* _check_if_ac_needed
check_if_ac_needed(rs, ac_currently_on) ==
    LET effective_target == first_room_target(rs)
        valid == ValidRooms(rs)
        temps == CurrentTemps(rs)
        n     == Cardinality(valid)
        sum   == SumOver(temps, valid)
    IN  IF valid = {} THEN FALSE
        ELSE IF hvac_mode = "cool"
             THEN ac_needed_cool(ac_currently_on, n, sum, MaxOver(temps, valid), effective_target)
        ELSE IF hvac_mode = "heat"
             THEN ac_needed_heat(ac_currently_on, n, sum, MinOver(temps, valid), effective_target)
        ELSE ac_needed_auto(n, sum, effective_target)

-----------------------------------------------------------------------------
(* Main fan tier *)

\* Averages are kept multiplied by the number n of valid readings: n_avg_diff is
\* n * avg_temp_diff.

\* the maintaining rule tested after the mode rules instead of before them
fan_is_maintaining_never(n, n_avg_diff, temp_variance) == FALSE

\* _determine_and_set_main_fan_speed, line 1049: at target, maintaining
fan_is_maintaining(n, n_avg_diff, temp_variance) ==
    temp_variance <= 10 /\ Abs(n_avg_diff) <= 5 * n

\* the cool rules with the close-to-target test on max_temp_diff not strict
fan_speed_cool_loose(n, n_avg_diff, max_temp_diff, temp_variance) ==
    IF \/ n_avg_diff >= cfg.main_fan_high_threshold * n
       \/ (max_temp_diff >= 30 /\ temp_variance >= 20)
    THEN "high"
    ELSE IF \/ n_avg_diff <= (0 - 5) * n
            \/ (n_avg_diff < cfg.main_fan_medium_threshold * n /\ max_temp_diff <= 20)
    THEN "low"
    ELSE "medium"

\* the cool rules with the high threshold itself excluded
fan_speed_cool_above(n, n_avg_diff, max_temp_diff, temp_variance) ==
    IF \/ n_avg_diff > cfg.main_fan_high_threshold * n
       \/ (max_temp_diff >= 30 /\ temp_variance >= 20)
    THEN "high"
    ELSE IF \/ n_avg_diff <= (0 - 5) * n
            \/ (n_avg_diff < cfg.main_fan_medium_threshold * n /\ max_temp_diff < 20)
    THEN "low"
    ELSE "medium"

\* _determine_and_set_main_fan_speed, lines 1057-1080: cool mode
fan_speed_cool(n, n_avg_diff, max_temp_diff, temp_variance) ==
    IF \/ n_avg_diff >= cfg.main_fan_high_threshold * n
       \/ (max_temp_diff >= 30 /\ temp_variance >= 20)
    THEN "high"
    ELSE IF \/ n_avg_diff <= (0 - 5) * n
            \/ (n_avg_diff < cfg.main_fan_medium_threshold * n /\ max_temp_diff < 20)
    THEN "low"
    ELSE "medium"

\* _determine_and_set_main_fan_speed, lines 1081-1104: heat mode
fan_speed_heat(n, n_avg_diff, min_temp_diff, temp_variance) ==
    IF \/ n_avg_diff <= (0 - cfg.main_fan_high_threshold) * n
       \/ (min_temp_diff <= 0 - 30 /\ temp_variance >= 20)
    THEN "high"
    ELSE IF \/ n_avg_diff >= 5 * n
            \/ (n_avg_diff > (0 - cfg.main_fan_medium_threshold) * n /\ min_temp_diff > 0 - 20)
    THEN "low"
    ELSE "medium"

\* the auto rule asking for both a large deviation and a large spread
fan_speed_auto_both(max_deviation, temp_variance) ==
    IF max_deviation >= 30 /\ temp_variance >= 30 THEN "high" ELSE "medium"

\* _determine_and_set_main_fan_speed, lines 1105-1119: auto and any other mode
fan_speed_auto(max_deviation, temp_variance) ==
    IF max_deviation >= 30 \/ temp_variance >= 30 THEN "high" ELSE "medium"

\* _determine_and_set_main_fan_speed, lines 1010-1119: the tier derivation
determine_fan_speed(rs) ==
    LET effective_target == first_room_target(rs)
        valid == ValidRooms(rs)
        temps == CurrentTemps(rs)
        n     == Cardinality(valid)
        sum   == SumOver(temps, valid)
        max_temp == MaxOver(temps, valid)
        min_temp == MinOver(temps, valid)
        temp_variance == max_temp - min_temp
        n_avg_diff == sum - n * effective_target
        max_temp_diff == max_temp - effective_target
        min_temp_diff == min_temp - effective_target
        max_deviation == Max2(Abs(max_temp_diff), Abs(min_temp_diff))
    IN  IF valid = {} THEN "medium"
        ELSE IF fan_is_maintaining(n, n_avg_diff, temp_variance) THEN "low"
        ELSE IF hvac_mode = "cool"
             THEN fan_speed_cool(n, n_avg_diff, max_temp_diff, temp_variance)
        ELSE IF hvac_mode = "heat"
             THEN fan_speed_heat(n, n_avg_diff, min_temp_diff, temp_variance)
        ELSE fan_speed_auto(max_deviation, temp_variance)

\* sensor.py, MainFanSpeedRecommendationSensor.native_value, lines 422-500: the
\* tier the debug sensor shows, from the coordinator's data (the tier the cycle
\* stored, the room states) and a mode
native_value(stored_speed, rs, mode) ==
    LET target_temp == first_room_target(rs)
        valid == ValidRooms(rs)
        temps == CurrentTemps(rs)
        n     == Cardinality(valid)
        sum   == SumOver(temps, valid)
        max_temp == MaxOver(temps, valid)
        min_temp == MinOver(temps, valid)
        temp_variance == max_temp - min_temp
        n_avg_diff == sum - n * target_temp
        max_temp_diff == max_temp - target_temp
        min_temp_diff == min_temp - target_temp
        max_deviation == Max2(Abs(max_temp_diff), Abs(min_temp_diff))
    IN  IF stored_speed # "None" THEN stored_speed
        ELSE IF DOMAIN rs = {} THEN "no_room_data"
        ELSE IF valid = {} THEN "no_valid_temps"
        ELSE IF target_temp = 0 THEN "no_target_temp"
        ELSE IF temp_variance <= 10 /\ Abs(n_avg_diff) <= 5 * n THEN "low"
        ELSE IF mode = "cool"
             THEN IF n_avg_diff >= 30 * n \/ (max_temp_diff >= 30 /\ temp_variance >= 20)
                  THEN "high"
                  ELSE IF n_avg_diff <= (0 - 10) * n THEN "low" ELSE "medium"
        ELSE IF mode = "heat"
             THEN IF n_avg_diff <= (0 - 30) * n \/ (min_temp_diff <= 0 - 30 /\ temp_variance >= 20)
                  THEN "high"
                  ELSE IF n_avg_diff >= 10 * n THEN "low" ELSE "medium"
        ELSE IF max_deviation >= 30 \/ temp_variance >= 30 THEN "high" ELSE "medium"

-----------------------------------------------------------------------------
(* Advisory responses and their validation *)

\* A JSON value of the response object: a number (n, in tenths: 55.7 is 557),
\* a string (s) or null.
Num(x)  == [t |-> "num", n |-> x, s |-> ""]
Str(x)  == [t |-> "str", n |-> 0, s |-> x]
Null    == [t |-> "null", n |-> 0, s |-> ""]

\* The advisory text: kind "json" when the first brace-delimited block parses as a
\* JSON object (obj), "nojson" when the text holds no brace block, "malformed" when
\* json.loads rejects the block.
Response(kind, obj) == [kind |-> kind, obj |-> obj]
NoResponse == Response("None", EmptyMap)

\* int(x): truncation towards zero of a number; raises on text and null
py_int_raises(v) == v.t # "num"
py_int(v) == IF v.n >= 0 THEN v.n \div 10 ELSE 0 - ((0 - v.n) \div 10)

\* float(x): raises on text and null
py_float_raises(v) == v.t # "num"

\* str(x).lower() for the texts the model uses
py_lower(str) ==
    CASE str = "DRY"  -> "dry"
      [] str = "Cool" -> "cool"
      [] OTHER        -> str

\* a position passed on without clamping
clamp_position_unclamped(position) == position

\* max(0, min(100, position)), in percent
clamp_position(position) == Max2(0, Min2(100, position))

\* max(16, min(30, ac_temp)), in tenths of a degree
clamp_ac_temperature(ac_temp) == Max2(160, Min2(300, ac_temp))

\* the hvac_mode values _parse_ai_response accepts
ValidHvacModes == {"cool", "heat", "dry", "auto"}

accepted_hvac_mode(v) == v.t = "str" /\ py_lower(v.s) \in ValidHvacModes

\* _parse_ai_response: the validated map, {} on any failure
parse_ai_response(ai_response, rs) ==
    LET obj   == ai_response.obj
        rooms == {r \in DOMAIN rs : r \in DOMAIN obj}
        raises == \/ \E r \in rooms : py_int_raises(obj[r])
                  \/ ("ac_temperature" \in DOMAIN obj /\ py_float_raises(obj["ac_temperature"]))
        keys  == rooms
                 \cup (IF "ac_temperature" \in DOMAIN obj THEN {"ac_temperature"} ELSE {})
                 \cup (IF "hvac_mode" \in DOMAIN obj /\ accepted_hvac_mode(obj["hvac_mode"])
                       THEN {"hvac_mode"} ELSE {})
    IN  IF ai_response.kind # "json" THEN EmptyMap
        ELSE IF raises THEN EmptyMap
        ELSE [k \in keys |->
                IF k = "hvac_mode" THEN py_lower(obj[k].s)
                ELSE IF k = "ac_temperature" THEN clamp_ac_temperature(obj[k].n)
                ELSE clamp_position(py_int(obj[k]))]

\* the engine returning {} on every failure, the cache ignored
get_ai_recommendations_drops_cache(outcome, ai_response, rs) ==
    IF outcome = "exception"
    THEN [ ret              |-> EmptyMap,
           last_error       |-> "AI API Error",
           error_count      |-> error_count + 1,
           last_ai_response |-> last_ai_response ]
    ELSE [ ret              |-> parse_ai_response(ai_response, rs),
           last_error       |-> last_error,
           error_count      |-> error_count,
           last_ai_response |-> ai_response ]

\* _get_ai_recommendations: outcome "exception" when the client call raises,
\* otherwise the response text. Yields the return value and the fields it writes.
get_ai_recommendations(outcome, ai_response, rs) ==
    IF outcome = "exception"
    THEN [ ret              |-> IF DOMAIN last_recommendations # {}
                                THEN last_recommendations ELSE EmptyMap,
           last_error       |-> "AI API Error",
           error_count      |-> error_count + 1,
           last_ai_response |-> last_ai_response ]
    ELSE [ ret              |-> parse_ai_response(ai_response, rs),
           last_error       |-> last_error,
           error_count      |-> error_count,
           last_ai_response |-> ai_response ]

\* the responses the advisory service gives in the cycle model
Responses ==
    { \* a plain answer
      Response("json", [k \in {"A", "B"} |-> IF k = "A" THEN Num(600) ELSE Num(300)]),
      \* out-of-range values: {"A": 150, "B": -10, "ac_temperature": 40}
      Response("json", [k \in {"A", "B", "ac_temperature"} |->
                            IF k = "A" THEN Num(1500) ELSE IF k = "B" THEN Num(0 - 100) ELSE Num(400)]),
      \* a fractional value, an unknown room, a mode in capitals, a low setpoint
      Response("json", [k \in {"A", "Kitchen", "hvac_mode", "ac_temperature"} |->
                            IF k = "A" THEN Num(557) ELSE IF k = "hvac_mode" THEN Str("DRY")
                            ELSE IF k = "Kitchen" THEN Num(200) ELSE Num(100)]),
      \* a room value that is not a number
      Response("json", [k \in {"A", "B"} |-> IF k = "A" THEN Num(500) ELSE Str("half")]),
      \* prose without any JSON object
      Response("nojson", EmptyMap) }

-----------------------------------------------------------------------------
(* The host runtime: entity states, service calls, notifications *)

\* hass.states.get(main_climate_entity): found FALSE when the entity is unknown;
\* hvac_mode, hvac_action and temperature are its attributes ("None"/NoReading
\* when the attribute is absent)
ClimateState(found, mode, action, temperature) ==
    [found |-> found, hvac_mode |-> mode, hvac_action |-> action, temperature |-> temperature]
NoClimate == ClimateState(FALSE, "None", "None", NoReading)

ClimateReads ==
    { NoClimate,
      ClimateState(TRUE, "off", "off", 240),
      ClimateState(TRUE, "cool", "cooling", 300),
      ClimateState(TRUE, "None", "idle", NoReading) }

\* the unit's attribute hvac_modes
SupportedHvacModes == {"off", "cool", "heat", "dry"}

\* hass.states.get(cover_entity) / hass.states.get(main_fan_entity)
EntityReads == {"missing", "unavailable", "ok"}

\* the sensor readings a cycle may find, per room
TempReadings ==
    [r \in Rooms |-> IF r = RoomOrder[1] THEN {NoReading, 200, 220, 235}
                     ELSE {NoReading, 220}]

\* one hass.services.async_call
Command(service, entity, value, mode, failed) ==
    [service |-> service, entity |-> entity, value |-> value, mode |-> mode, failed |-> failed]
NoCommand == Command("None", "None", 0, "None", FALSE)

\* _send_notification: the titles sent so far, nothing when notifications are off
send_notification(sent, title) ==
    IF cfg.enable_notifications THEN sent \cup {title} ELSE sent

\* async_optimize, lines 305-310
is_main_ac_running(cs) ==
    /\ cs.found
    /\ \/ cs.hvac_action \in {"cooling", "heating"}
       \/ (cs.hvac_mode # "None" /\ cs.hvac_mode \notin {"off", "unavailable"})

\* _control_main_ac: the command it dispatches (NoCommand when none) and what it
\* writes; `failed` is whether the service call raises
control_main_ac(needs, mcs, failed) ==
    LET current_mode == mcs.hvac_mode
        target_mode  == IF hvac_mode # "auto" THEN hvac_mode ELSE "cool"
        turn_on      == mcs.found /\ needs /\ current_mode = "off"
        turn_off     == mcs.found /\ ~needs /\ current_mode # "None" /\ current_mode # "off"
        called       == turn_on \/ turn_off
    IN  [ command     |-> IF turn_on
                          THEN Command("set_hvac_mode", "main_climate", 0, target_mode, failed)
                          ELSE IF turn_off
                          THEN Command("set_hvac_mode", "main_climate", 0, "off", failed)
                          ELSE NoCommand,
          last_error  |-> IF called /\ failed THEN "AC Control Error" ELSE last_error,
          error_count |-> IF called /\ failed THEN error_count + 1 ELSE error_count,
          notified    |-> IF ~called THEN {}
                          ELSE IF failed THEN send_notification({}, "AC Control Error")
                          ELSE IF turn_on THEN send_notification({}, "AC Turned On")
                          ELSE send_notification({}, "AC Turned Off") ]

-----------------------------------------------------------------------------
(* The advisory gate *)

\* the gate without the stability skip of lines 374-375
should_run_ai_ignores_stable(all_rooms_stable, time_now) ==
    \/ last_ai_optimization = Never
    \/ time_now - last_ai_optimization >= cfg.ai_optimization_interval

\* the gate without the interval test of lines 368-371
should_run_ai_ignores_interval(all_rooms_stable, time_now) ==
    ~(all_rooms_stable /\ DOMAIN last_recommendations # {})

\* the gate with a stability skip that does not ask for cached recommendations
should_run_ai_skips_without_cache(all_rooms_stable, time_now) ==
    /\ \/ last_ai_optimization = Never
       \/ time_now - last_ai_optimization >= cfg.ai_optimization_interval
    /\ ~all_rooms_stable

\* the gate opening only after more than the interval has passed
should_run_ai_after_interval(all_rooms_stable, time_now) ==
    /\ \/ last_ai_optimization = Never
       \/ time_now - last_ai_optimization > cfg.ai_optimization_interval
    /\ ~(all_rooms_stable /\ DOMAIN last_recommendations # {})

\* async_optimize, lines 368-375
should_run_ai(all_rooms_stable, time_now) ==
    /\ \/ last_ai_optimization = Never
       \/ time_now - last_ai_optimization >= cfg.ai_optimization_interval
    /\ ~(all_rooms_stable /\ DOMAIN last_recommendations # {})

\* the engine not gated by the unit's running status
unit_allows_ai_always(running) == TRUE

\* async_optimize, line 397
unit_allows_ai(running) == ~cfg.main_climate_entity \/ running

\* the record async_optimize returns
Result(kind, rs, recs, fan, mcs, running, needs, err, count) ==
    [ kind |-> kind, room_states |-> rs, recommendations |-> recs,
      main_fan_speed |-> fan, main_climate_state |-> mcs, main_ac_running |-> running, needs_ac |-> needs,
      last_error |-> err, error_count |-> count ]
NoResult == Result("None", EmptyMap, EmptyMap, "None", NoClimate, FALSE, FALSE, "None", 0)

-----------------------------------------------------------------------------
(* Actuation *)

\* what a step dispatches and writes: the service call (NoCommand when none), the
\* error fields, the notifications sent
Effect(command, err, count, sent) ==
    [command |-> command, last_error |-> err, error_count |-> count, notified |-> sent]
NoEffect == Effect(NoCommand, last_error, error_count, {})

\* _set_hvac_mode: cs is the unit's state it reads, `failed` whether the call raises
set_hvac_mode(mode, cs, failed) ==
    LET called == /\ cs.found
                  /\ cs.hvac_mode # mode
                  /\ mode \in SupportedHvacModes
    IN  [ effect    |-> IF ~called THEN NoEffect
                        ELSE IF failed
                        THEN Effect(Command("set_hvac_mode", "main_climate", 0, mode, TRUE),
                                    "HVAC Mode Control Error", error_count + 1, {})
                        ELSE Effect(Command("set_hvac_mode", "main_climate", 0, mode, FALSE),
                                    last_error, error_count,
                                    send_notification({}, "HVAC Mode Changed")),
          hvac_mode |-> IF called /\ ~failed THEN mode ELSE hvac_mode ]

\* the setpoint step skipping a difference of exactly half a degree as well
set_ac_temperature_skips_at_half(temperature, cs, failed) ==
    LET current_temp == cs.temperature
        called == /\ cs.found
                  /\ ~(current_temp # NoReading /\ Abs(current_temp - temperature) <= 5)
    IN  IF ~called THEN NoEffect
        ELSE Effect(Command("set_temperature", "main_climate", temperature, "None", failed),
                    IF failed THEN "AC Temperature Control Error" ELSE last_error,
                    IF failed THEN error_count + 1 ELSE error_count,
                    {})

\* _set_ac_temperature
set_ac_temperature(temperature, cs, failed) ==
    LET current_temp == cs.temperature
        called == /\ cs.found
                  /\ ~(current_temp # NoReading /\ Abs(current_temp - temperature) < 5)
    IN  IF ~called THEN NoEffect
        ELSE Effect(Command("set_temperature", "main_climate", temperature, "None", failed),
                    IF failed THEN "AC Temperature Control Error" ELSE last_error,
                    IF failed THEN error_count + 1 ELSE error_count,
                    {})

\* the override never consulted
override_disables_never(room) == FALSE

\* room_overrides.get(f"{room_name}_enabled") is False
override_disables(room) ==
    /\ OverrideKey(room) \in DOMAIN cfg.room_overrides
    /\ cfg.room_overrides[OverrideKey(room)] = FALSE

\* the room step with an unavailable cover recorded as an error
apply_room_counts_unavailable(room, position, cover, failed) ==
    IF override_disables(room) THEN NoEffect
    ELSE IF cover \in {"missing", "unavailable"}
    THEN Effect(NoCommand, "Cover Control Error", error_count + 1, {})
    ELSE Effect(Command("set_cover_position", room, position, "None", failed),
                IF failed THEN "Cover Control Error" ELSE last_error,
                IF failed THEN error_count + 1 ELSE error_count,
                IF failed THEN send_notification({}, "Cover Control Error") ELSE {})

\* _apply_recommendations, one iteration of the room loop (lines 940-1003):
\* cover is the state of the room's cover entity
apply_room(room, position, cover, failed) ==
    IF override_disables(room) THEN NoEffect
    ELSE IF cover \in {"missing", "unavailable"} THEN NoEffect
    ELSE Effect(Command("set_cover_position", room, position, "None", failed),
                IF failed THEN "Cover Control Error" ELSE last_error,
                IF failed THEN error_count + 1 ELSE error_count,
                IF failed THEN send_notification({}, "Cover Control Error") ELSE {})

\* _determine_and_set_main_fan_speed, lines 1121-1163: dispatching the tier
set_main_fan(fan_speed, fan_state, failed) ==
    IF fan_state \in {"missing", "unavailable"} THEN NoEffect
    ELSE Effect(Command(IF cfg.main_fan_is_climate THEN "set_fan_mode" ELSE "set_preset_mode",
                        "main_fan", 0, fan_speed, failed),
                last_error, error_count,
                IF failed THEN send_notification({}, "Main Fan Error") ELSE {})

\* _apply_recommendations, line 932
hvac_mode_applies(recs) ==
    /\ "hvac_mode" \in DOMAIN recs
    /\ cfg.enable_humidity_control
    /\ cfg.main_climate_entity

\* _apply_recommendations, line 936
ac_temperature_applies(recs) ==
    /\ "ac_temperature" \in DOMAIN recs
    /\ cfg.auto_control_ac_temperature
    /\ cfg.main_climate_entity

\* the rooms `for room_name, position in recommendations.items()` visits from
\* position `from` of the configured order on
rooms_left(recs, from) == {i \in from..Len(RoomOrder) : RoomOrder[i] \in DOMAIN recs}
next_room(recs, from) ==
    IF rooms_left(recs, from) = {} THEN 0
    ELSE CHOOSE i \in rooms_left(recs, from) : \A j \in rooms_left(recs, from) : i <= j

\* where the cycle continues once the room loop has reached position `from`
after_rooms(recs, from) == IF next_room(recs, from) = 0 THEN "fan" ELSE "apply_room"
\* ... once the HVAC mode is dealt with
after_mode(recs) == IF ac_temperature_applies(recs) THEN "apply_temp" ELSE after_rooms(recs, 1)
\* ... once the advisory engine has returned
after_engine(recs) == IF hvac_mode_applies(recs) THEN "apply_mode" ELSE after_mode(recs)

-----------------------------------------------------------------------------
(* The room list of the configuration entry *)

\* the sensors and actuators a room form offers
TemperatureSensors == {"sensor.t1", "sensor.t2"}
HumiditySensors == {"None", "sensor.h"}
CoverEntities == {"cover.c"}

\* one element of CONF_ROOM_CONFIGS; an absent CONF_HUMIDITY_SENSOR key is "None"
RoomConfig(name, temp_sensor, humidity_sensor, cover) ==
    [room_name |-> name, temperature_sensor |-> temp_sensor,
     humidity_sensor |-> humidity_sensor, cover_entity |-> cover]

\* what a user may submit in a room form
RoomInputs ==
    {RoomConfig(name, t, h, c) : name \in Rooms, t \in TemperatureSensors,
                                 h \in HumiditySensors, c \in CoverEntities}

\* the room list the optimizer of the other specifications was built from
ConfiguredRooms ==
    [i \in 1..Len(RoomOrder) |-> RoomConfig(RoomOrder[i], "sensor.t1", "None", "cover.c")]

\* no configuration flow is open and the entry holds the configured rooms and
\* the settings the optimizer was built with
InitEntry ==
    /\ flow_rooms = <<>>
    /\ room_configs = ConfiguredRooms
    /\ room_to_edit = "None"
    /\ entry_data = cfg

\* [room for room in rooms if room[CONF_ROOM_NAME] != name]
RECURSIVE without_room(_, _)
without_room(rooms, name) ==
    IF rooms = <<>> THEN <<>>
    ELSE IF Head(rooms).room_name # name
         THEN <<Head(rooms)>> \o without_room(Tail(rooms), name)
         ELSE without_room(Tail(rooms), name)

\* [updated_room if room[CONF_ROOM_NAME] == name else room for room in rooms]
with_room_replaced(rooms, name, updated_room) ==
    [i \in 1..Len(rooms) |-> IF rooms[i].room_name = name THEN updated_room ELSE rooms[i]]

\* the names the dropdown of a select step offers
room_options(rooms) == {rooms[i].room_name : i \in 1..Len(rooms)}

-----------------------------------------------------------------------------
(* Invocations of async_optimize *)

\* the position and the locals of one invocation
Frame(at, rs, running, mcs, needs, recs, fan, idx, outcome, time_read, stable) ==
    [ pc |-> at, room_states |-> rs, main_ac_running |-> running, main_climate_state |-> mcs,
      needs_ac |-> needs, recommendations |-> recs, main_fan_speed |-> fan, room_idx |-> idx,
      ai_outcome |-> outcome, current_time |-> time_read, rooms_stable |-> stable ]

\* an invocation the host has not made
NoFrame == Frame("idle", EmptyMap, FALSE, NoClimate, FALSE, EmptyMap, "None", 0, "None", Never, FALSE)

\* the awaits of async_optimize at which the event loop may run another task:
\* the advisory request and the service calls of the application and of the fan
Suspended == {"ai_call", "apply_mode", "apply_temp", "apply_room", "fan"}

-----------------------------------------------------------------------------
(* The optimization cycle *)

\* AirconOptimizer.__init__ (and the host before the first refresh)
InitOptimizer ==
    /\ hvac_mode = cfg.hvac_mode
    /\ startup_time = Never
    /\ last_ai_optimization = Never
    /\ last_recommendations = EmptyMap
    /\ last_main_fan_speed = "None"
    /\ last_error = "None"
    /\ error_count = 0
    /\ last_ai_response = NoResponse
    /\ current_schedule = NoSchedule
    /\ outdoor_temperature = NoReading

\* no cycle is running
NoLocals ==
    /\ room_states = EmptyMap
    /\ main_ac_running = FALSE
    /\ main_climate_state = NoClimate
    /\ needs_ac = FALSE
    /\ recommendations = EmptyMap
    /\ main_fan_speed = "None"
    /\ room_idx = 0
    /\ ai_outcome = "None"
    /\ current_time = Never
    /\ rooms_stable = FALSE

InitHost ==
    /\ now = 0
    /\ wall_clock = NoClock
    /\ outdoor_states = NoOutdoorStates
    /\ last_command = NoCommand
    /\ cover_state = "None"
    /\ notified = {}
    /\ advisor_prev_call = Never
    /\ advisor_last_call = Never
    /\ result = NoResult
    /\ other = NoFrame
    /\ InitEntry

Init ==
    /\ cfg \in Configs
    /\ InitOptimizer
    /\ pc = "idle"
    /\ NoLocals
    /\ InitHost

\* async_optimize returns (or raises): its locals are gone
Return(res) ==
    /\ pc' = "done"
    /\ result' = res
    /\ room_states' = EmptyMap
    /\ main_ac_running' = FALSE
    /\ main_climate_state' = NoClimate
    /\ needs_ac' = FALSE
    /\ recommendations' = EmptyMap
    /\ main_fan_speed' = "None"
    /\ room_idx' = 0
    /\ current_time' = Never
    /\ rooms_stable' = FALSE

\* a step's service call, error fields and notifications take effect
Apply(effect) ==
    /\ last_command' = effect.command
    /\ last_error' = effect.last_error
    /\ error_count' = effect.error_count
    /\ notified' = effect.notified

\* a skipped cycle starting from nothing instead of the cache
reused_recommendations_none == EmptyMap

\* async_optimize, line 394: the cached recommendations, or {} before the first run
reused_recommendations ==
    IF DOMAIN last_recommendations # {} THEN last_recommendations ELSE EmptyMap

\* the startup delay still running at the moment it has just run out
in_startup_delay_inclusive(time_now, started) ==
    time_now - started <= DEFAULT_STARTUP_DELAY

\* async_optimize, lines 329-330: in_startup_delay
in_startup_delay(time_now, started) ==
    time_now - started < DEFAULT_STARTUP_DELAY

\* the readings one collection of room states may find
SensorReads == {t \in [Rooms -> UNION {TempReadings[r] : r \in Rooms}] :
                    \A r \in Rooms : t[r] \in TempReadings[r]}

\* the wall clocks a cycle may read
Clocks == {Clock("monday", 12, 0), Clock("saturday", 23, 30)}

\* async_optimize from its entry to the advisory call (lines 248-409), or to its
\* return when the cycle ends without one (lines 350-360, 429-472), or to the
\* exception that leaves it
StartCycle ==
    /\ pc \in {"idle", "done"}
    /\ UNCHANGED <<flow_rooms, room_configs, room_to_edit, other, entry_data>>
    /\ \E clock \in (IF cfg.enable_scheduling /\ cfg.schedules # <<>> THEN Clocks ELSE {wall_clock}),
          reading \in (IF cfg.enable_weather_adjustment THEN OutdoorReads ELSE {outdoor_states.weather}),
          temps \in SensorReads,
          cs \in (IF cfg.main_climate_entity THEN ClimateReads ELSE {NoClimate}),
          failed \in BOOLEAN :
        LET started  == IF startup_time = Never THEN now ELSE startup_time
            looked_up == OutdoorStates(outdoor_states.sensor, outdoor_states.unit, reading)
            schedule == IF cfg.enable_scheduling THEN get_active_schedule(clock)
                        ELSE Returned(NoSchedule)
            outdoor_temp == IF cfg.enable_weather_adjustment
                            THEN get_outdoor_temperature(looked_up) ELSE NoReading
            effective_target == weather_target(scheduled_target(schedule.ret), outdoor_temp)
            rs       == collect_room_states(temps, effective_target)
            running  == is_main_ac_running(cs)
            needs    == check_if_ac_needed(rs, running)
            ctl      == IF cfg.auto_control_main_ac /\ cfg.main_climate_entity
                        THEN control_main_ac(needs, cs, failed)
                        ELSE NoEffect
            stable   == check_rooms_stable(rs)
            cached   == reused_recommendations
        IN  /\ startup_time' = started
            /\ wall_clock' = clock
            /\ cover_state' = "None"
            /\ outdoor_states' = looked_up
            /\ ai_outcome' = "None"
            /\ UNCHANGED <<cfg, hvac_mode, last_ai_optimization, last_recommendations,
                           last_main_fan_speed, last_ai_response, now>>
            /\ IF schedule.raised # "None"
               THEN \* line 257: the exception leaves async_optimize
                    /\ UNCHANGED <<last_error, error_count, current_schedule,
                                   outdoor_temperature, advisor_prev_call, advisor_last_call>>
                    /\ last_command' = NoCommand
                    /\ notified' = {}
                    /\ Return(Result(schedule.raised, EmptyMap, EmptyMap, "None", NoClimate, FALSE, FALSE,
                                     last_error, error_count))
               ELSE
                    /\ failed => (ctl.command # NoCommand /\ error_count < MaxErr)
                    /\ current_schedule' = schedule.ret
                    /\ outdoor_temperature' = IF outdoor_temp # NoReading THEN outdoor_temp
                                              ELSE outdoor_temperature
                    /\ last_error' = ctl.last_error
                    /\ error_count' = ctl.error_count
                    /\ last_command' = ctl.command
                    /\ IF ValidRooms(rs) = {}
                       THEN \* no valid temperature: the early return
                            /\ notified' = IF in_startup_delay(now, started) THEN ctl.notified
                                           ELSE send_notification(ctl.notified, "No Temperature Data")
                            /\ Return(Result("no_data", rs, EmptyMap, "None", cs, running, FALSE,
                                             IF in_startup_delay(now, started) THEN "None" ELSE "No valid temperature data",
                                             IF in_startup_delay(now, started) THEN 0 ELSE ctl.error_count))
                            /\ UNCHANGED <<advisor_prev_call, advisor_last_call>>
                       ELSE IF unit_allows_ai(running) /\ should_run_ai(stable, now)
                       THEN \* the advisory request goes out
                            /\ pc' = "ai_call"
                            /\ room_states' = rs
                            /\ main_ac_running' = running
                            /\ main_climate_state' = cs
                            /\ needs_ac' = needs
                            /\ recommendations' = cached
                            /\ main_fan_speed' = last_main_fan_speed
                            /\ room_idx' = 0
                            /\ current_time' = now
                            /\ rooms_stable' = stable
                            /\ notified' = ctl.notified
                            /\ advisor_prev_call' = advisor_last_call
                            /\ advisor_last_call' = now
                            /\ result' = NoResult
                       ELSE IF unit_allows_ai(running) /\ last_ai_optimization = Never
                       THEN \* line 431 subtracts None: the cycle raises TypeError
                            /\ notified' = ctl.notified
                            /\ Return(Result("TypeError", rs, EmptyMap, "None", cs, running, needs,
                                             ctl.last_error, ctl.error_count))
                            /\ UNCHANGED <<advisor_prev_call, advisor_last_call>>
                       ELSE \* data only: the cached values are reused
                            /\ notified' = ctl.notified
                            /\ Return(Result("full", rs, cached, last_main_fan_speed, cs, running, needs,
                                             ctl.last_error, ctl.error_count))
                            /\ UNCHANGED <<advisor_prev_call, advisor_last_call>>

\* how an advisory call may end
AdvisorOutcomes == {"exception", "response"}

\* _get_ai_recommendations returns (lines 613-655)
AIRespond ==
    /\ pc = "ai_call"
    /\ \E outcome \in AdvisorOutcomes :
       \E text \in (IF outcome = "exception" THEN {NoResponse} ELSE Responses) :
        LET got == get_ai_recommendations(outcome, text, room_states)
        IN  /\ outcome = "exception" => error_count < MaxErr
            /\ recommendations' = got.ret
            /\ last_error' = got.last_error
            /\ error_count' = got.error_count
            /\ last_ai_response' = got.last_ai_response
            /\ ai_outcome' = outcome
            /\ pc' = after_engine(got.ret)
            /\ room_idx' = next_room(got.ret, 1)
    /\ last_command' = NoCommand
    /\ cover_state' = "None"
    /\ notified' = {}
    /\ UNCHANGED <<cfg, current_schedule, outdoor_temperature, wall_clock, outdoor_states, rooms_stable,
                   hvac_mode, startup_time, last_ai_optimization, last_recommendations,
                   last_main_fan_speed, room_states, main_ac_running, main_climate_state,
                   needs_ac, main_fan_speed, current_time, now,
                   advisor_prev_call, advisor_last_call, result,
                   flow_rooms, room_configs, room_to_edit, other, entry_data>>

\* _apply_recommendations, lines 931-933
ApplyHvacMode ==
    /\ pc = "apply_mode"
    /\ \E cs \in ClimateReads, failed \in BOOLEAN :
         LET set == set_hvac_mode(recommendations["hvac_mode"], cs, failed)
         IN  /\ failed => (set.effect.command # NoCommand /\ error_count < MaxErr)
             /\ Apply(set.effect)
             /\ hvac_mode' = set.hvac_mode
    /\ pc' = after_mode(recommendations)
    /\ cover_state' = "None"
    /\ UNCHANGED <<cfg, current_schedule, outdoor_temperature, wall_clock, outdoor_states, rooms_stable,
                   startup_time, last_ai_optimization, last_recommendations,
                   last_main_fan_speed, last_ai_response, room_states,
                   main_ac_running, main_climate_state, needs_ac, recommendations, main_fan_speed, room_idx,
                   ai_outcome, current_time, now, advisor_prev_call, advisor_last_call, result,
                   flow_rooms, room_configs, room_to_edit, other, entry_data>>

\* _apply_recommendations, lines 935-937
ApplyAcTemperature ==
    /\ pc = "apply_temp"
    /\ \E cs \in ClimateReads, failed \in BOOLEAN :
         LET effect == set_ac_temperature(recommendations["ac_temperature"], cs, failed)
         IN  /\ failed => (effect.command # NoCommand /\ error_count < MaxErr)
             /\ Apply(effect)
    /\ pc' = after_rooms(recommendations, 1)
    /\ cover_state' = "None"
    /\ UNCHANGED <<cfg, current_schedule, outdoor_temperature, wall_clock, outdoor_states, rooms_stable,
                   hvac_mode, startup_time, last_ai_optimization, last_recommendations,
                   last_main_fan_speed, last_ai_response, room_states,
                   main_ac_running, main_climate_state, needs_ac, recommendations, main_fan_speed, room_idx,
                   ai_outcome, current_time, now, advisor_prev_call, advisor_last_call, result,
                   flow_rooms, room_configs, room_to_edit, other, entry_data>>

\* _apply_recommendations, the room loop (lines 940-1003), one room per step
ApplyRoom ==
    /\ pc = "apply_room"
    /\ LET room == RoomOrder[room_idx]
       IN  \E cover \in EntityReads, failed \in BOOLEAN :
             LET effect == apply_room(room, recommendations[room], cover, failed)
             IN  /\ failed => (effect.command # NoCommand /\ error_count < MaxErr)
                 /\ override_disables(room) => cover = "missing"
                 /\ Apply(effect)
                 /\ cover_state' = IF override_disables(room) THEN "None" ELSE cover
    /\ room_idx' = next_room(recommendations, room_idx + 1)
    /\ pc' = after_rooms(recommendations, room_idx + 1)
    /\ UNCHANGED <<cfg, current_schedule, outdoor_temperature, wall_clock, outdoor_states, rooms_stable,
                   hvac_mode, startup_time, last_ai_optimization, last_recommendations,
                   last_main_fan_speed, last_ai_response, room_states,
                   main_ac_running, main_climate_state, needs_ac, recommendations, main_fan_speed,
                   ai_outcome, current_time, now, advisor_prev_call, advisor_last_call, result,
                   flow_rooms, room_configs, room_to_edit, other, entry_data>>

\* async_optimize, lines 414-472: the main fan, the error reset, the cache, the result
FinishCycle ==
    /\ pc = "fan"
    /\ \E fan_state \in (IF cfg.main_fan_entity THEN EntityReads ELSE {"missing"}),
          failed \in BOOLEAN :
        LET fan_speed == IF cfg.main_fan_entity THEN determine_fan_speed(room_states)
                         ELSE main_fan_speed
            effect    == IF cfg.main_fan_entity /\ ValidRooms(room_states) # {}
                         THEN set_main_fan(fan_speed, fan_state, failed)
                         ELSE NoEffect
            reset     == DOMAIN recommendations # {}
            err       == IF reset THEN "None" ELSE effect.last_error
            count     == IF reset THEN 0 ELSE effect.error_count
        IN  /\ failed => effect.command # NoCommand
            /\ last_command' = effect.command
            /\ cover_state' = "None"
            /\ notified' = effect.notified
            /\ last_error' = err
            /\ error_count' = count
            /\ last_recommendations' = recommendations
            /\ last_main_fan_speed' = fan_speed
            /\ last_ai_optimization' = current_time
            /\ Return(Result("full", room_states, recommendations, fan_speed,
                             main_climate_state, main_ac_running, needs_ac, err, count))
    /\ UNCHANGED <<cfg, current_schedule, outdoor_temperature, wall_clock, outdoor_states,
                   hvac_mode, startup_time, last_ai_response, now, ai_outcome,
                   advisor_prev_call, advisor_last_call,
                   flow_rooms, room_configs, room_to_edit, other, entry_data>>

\* time passes: between cycles and while the advisory call is in flight
Tick ==
    /\ pc \in {"done", "ai_call"}
    /\ now + TimeStep <= MaxTime
    /\ now' = now + TimeStep
    /\ UNCHANGED <<cfg, current_schedule, outdoor_temperature, wall_clock, outdoor_states, rooms_stable,
                   hvac_mode, startup_time, last_ai_optimization, last_recommendations,
                   last_main_fan_speed, last_error, error_count, last_ai_response,
                   pc, room_states, main_ac_running, main_climate_state, needs_ac,
                   recommendations, main_fan_speed, room_idx, ai_outcome, current_time,
                   last_command, cover_state, notified, advisor_prev_call, advisor_last_call, result,
                   flow_rooms, room_configs, room_to_edit, other, entry_data>>

Next ==
    \/ StartCycle
    \/ AIRespond
    \/ ApplyHvacMode
    \/ ApplyAcTemperature
    \/ ApplyRoom
    \/ FinishCycle
    \/ Tick

Spec == Init /\ [][Next]_vars

\* the cycle under the scheduling of the host: the coordinator's timer keeps
\* calling async_optimize (__init__.py lines 79-85), every await of a started
\* cycle completes, and time passes
LiveConfigs ==
    { \* rooms only
      BaseConfig,
      \* a main unit, monitored
      [BaseConfig EXCEPT !.main_climate_entity = TRUE] }

InitLive ==
    /\ cfg \in LiveConfigs
    /\ InitOptimizer
    /\ pc = "idle"
    /\ NoLocals
    /\ InitHost

\* a step of async_optimize: its start by the timer or the completion of the
\* await it is suspended at
CycleStep ==
    \/ StartCycle
    \/ AIRespond
    \/ ApplyRoom
    \/ FinishCycle

\* neither configuration lets the engine set the unit's mode or setpoint
NextLive ==
    \/ CycleStep
    \/ Tick

Fairness ==
    /\ WF_vars(CycleStep)
    /\ WF_vars(Tick)

SpecLive == InitLive /\ [][NextLive]_vars /\ Fairness

-----------------------------------------------------------------------------
(* The need evaluation on its own: _check_if_ac_needed applied to one set of
   room states *)

\* the configured modes and two settings of the hysteresis thresholds
NeedConfigs ==
    { [BaseConfig EXCEPT !.main_climate_entity = TRUE,
                         !.hvac_mode = mode,
                         !.ac_turn_on_threshold = th[1],
                         !.ac_turn_off_threshold = th[2]] :
        mode \in {"cool", "heat", "auto"},
        th \in { <<DEFAULT_AC_TURN_ON_THRESHOLD, DEFAULT_AC_TURN_OFF_THRESHOLD>>,
                 <<DEFAULT_TEMPERATURE_DEADBAND, DEFAULT_AC_TURN_ON_THRESHOLD>> } }

\* the readings the evaluation is applied to, per room
NeedReadings ==
    [r \in Rooms |-> IF r = RoomOrder[1]
                     THEN {NoReading, 185, 188, 199, 200, 210, 215, 220, 229, 230, 231, 240, 270}
                     ELSE {NoReading, 210, 215, 220, 225, 229, 231, 240}]

NeedReads == {t \in [Rooms -> UNION {NeedReadings[r] : r \in Rooms}] :
                  \A r \in Rooms : t[r] \in NeedReadings[r]}

\* an optimizer as constructed, or with "dry" set by _set_hvac_mode, about to
\* evaluate the need for one collection of room states
InitNeed ==
    /\ cfg \in NeedConfigs
    /\ hvac_mode \in {cfg.hvac_mode, "dry"}
    /\ startup_time = Never
    /\ last_ai_optimization = Never
    /\ last_recommendations = EmptyMap
    /\ last_main_fan_speed = "None"
    /\ last_error = "None"
    /\ error_count = 0
    /\ last_ai_response = NoResponse
    /\ current_schedule = NoSchedule
    /\ outdoor_temperature = NoReading
    /\ pc = "check_need"
    /\ room_states \in {collect_room_states(temps, cfg.target_temperature) : temps \in NeedReads}
    /\ main_ac_running \in BOOLEAN
    /\ main_climate_state = NoClimate
    /\ needs_ac = FALSE
    /\ recommendations = EmptyMap
    /\ main_fan_speed = "None"
    /\ room_idx = 0
    /\ ai_outcome = "None"
    /\ current_time = Never
    /\ rooms_stable = FALSE
    /\ InitHost

\* async_optimize, line 313: needs_ac = await self._check_if_ac_needed(...)
CheckIfAcNeeded ==
    /\ pc = "check_need"
    /\ needs_ac' = check_if_ac_needed(room_states, main_ac_running)
    /\ pc' = "need_checked"
    /\ UNCHANGED <<cfg, current_schedule, outdoor_temperature, wall_clock, outdoor_states, rooms_stable,
                   hvac_mode, startup_time, last_ai_optimization, last_recommendations,
                   last_main_fan_speed, last_error, error_count, last_ai_response,
                   room_states, main_ac_running, main_climate_state, recommendations, main_fan_speed, room_idx,
                   ai_outcome, current_time, now, last_command, cover_state, notified,
                   advisor_prev_call, advisor_last_call, result,
                   flow_rooms, room_configs, room_to_edit, other, entry_data>>

NextNeed == CheckIfAcNeeded

SpecNeed == InitNeed /\ [][NextNeed]_vars

-----------------------------------------------------------------------------
(* The stability test on its own: _check_rooms_stable applied to one set of
   room states *)

\* two settings of the deadband
StableConfigs ==
    { [BaseConfig EXCEPT !.temperature_deadband = deadband] :
        deadband \in {DEFAULT_TEMPERATURE_DEADBAND, DEFAULT_AC_TURN_ON_THRESHOLD} }

\* the readings the test is applied to, per room
StableReadings ==
    [r \in Rooms |-> IF r = RoomOrder[1]
                     THEN {NoReading, 209, 210, 214, 215, 218, 220, 223, 225, 226, 230, 231}
                     ELSE {NoReading, 210, 215, 216, 220, 223, 225, 230}]

StableReads == {t \in [Rooms -> UNION {StableReadings[r] : r \in Rooms}] :
                    \A r \in Rooms : t[r] \in StableReadings[r]}

\* an optimizer as constructed, about to test one collection of room states
InitStable ==
    /\ cfg \in StableConfigs
    /\ InitOptimizer
    /\ pc = "check_stable"
    /\ room_states \in {collect_room_states(temps, cfg.target_temperature) : temps \in StableReads}
    /\ main_ac_running = FALSE
    /\ main_climate_state = NoClimate
    /\ needs_ac = FALSE
    /\ recommendations = EmptyMap
    /\ main_fan_speed = "None"
    /\ room_idx = 0
    /\ ai_outcome = "None"
    /\ current_time = Never
    /\ rooms_stable = FALSE
    /\ InitHost

\* async_optimize, line 363: all_rooms_stable = self._check_rooms_stable(room_states)
CheckRoomsStable ==
    /\ pc = "check_stable"
    /\ rooms_stable' = check_rooms_stable(room_states)
    /\ pc' = "stable_checked"
    /\ UNCHANGED <<cfg, hvac_mode, startup_time, last_ai_optimization, last_recommendations,
                   last_main_fan_speed, last_error, error_count, last_ai_response,
                   current_schedule, outdoor_temperature, room_states, main_ac_running, main_climate_state,
                   needs_ac, recommendations, main_fan_speed, room_idx, ai_outcome,
                   current_time, now, wall_clock, outdoor_states, last_command, cover_state, notified,
                   advisor_prev_call, advisor_last_call, result,
                   flow_rooms, room_configs, room_to_edit, other, entry_data>>

NextStable == CheckRoomsStable

SpecStable == InitStable /\ [][NextStable]_vars

-----------------------------------------------------------------------------
(* The schedule resolution on its own: async_optimize lines 253-270 for one
   configuration of schedules and one wall clock *)

\* the schedules the resolution is applied to
ScheduleChoices ==
    { Schedule("Night",   TRUE,  {"all"},      <<22, 0>>, <<8, 0>>,  200),
      Schedule("Work",    TRUE,  {"weekdays"}, <<8, 0>>,  <<18, 0>>, 240),
      Schedule("Weekend", TRUE,  {"weekends"}, <<6, 0>>,  <<23, 30>>, 230),
      Schedule("Monday",  TRUE,  {"monday"},   <<12, 0>>, <<12, 0>>, 210),
      Schedule("Off",     FALSE, {"all"},      <<0, 0>>,  <<23, 59>>, 250),
      \* "25:00": datetime.time(25, 0) raises ValueError
      Schedule("Broken",  TRUE,  {"all"},      <<25, 0>>, <<23, 59>>, 260) }

\* `schedules`: up to two entries, in configured order
ScheduleLists ==
    {<<>>} \cup {<<a>> : a \in ScheduleChoices}
           \cup {<<a, b>> : a \in ScheduleChoices, b \in ScheduleChoices}

ScheduleConfigs ==
    { [BaseConfig EXCEPT !.enable_scheduling = enabled, !.schedules = list] :
        enabled \in BOOLEAN, list \in ScheduleLists }

\* the wall clocks the resolution is applied at
ScheduleClocks ==
    { Clock(day, t[1], t[2]) :
        day \in {"monday", "saturday"},
        t \in { <<6, 0>>, <<8, 0>>, <<12, 0>>, <<18, 0>>, <<22, 0>>, <<23, 30>> } }

\* an optimizer as constructed, about to resolve the schedule at wall_clock
InitSchedule ==
    /\ cfg \in ScheduleConfigs
    /\ InitOptimizer
    /\ pc = "resolve_schedule"
    /\ NoLocals
    /\ now = 0
    /\ wall_clock \in ScheduleClocks
    /\ outdoor_states = NoOutdoorStates
    /\ last_command = NoCommand
    /\ cover_state = "None"
    /\ notified = {}
    /\ advisor_prev_call = Never
    /\ advisor_last_call = Never
    /\ result = NoResult
    /\ other = NoFrame
    /\ InitEntry

\* async_optimize, lines 253-270: the resolver is called when scheduling is
\* enabled; its exception leaves async_optimize
ResolveSchedule ==
    /\ pc = "resolve_schedule"
    /\ LET schedule == IF cfg.enable_scheduling THEN get_active_schedule(wall_clock)
                       ELSE Returned(NoSchedule)
       IN  IF schedule.raised # "None"
           THEN /\ pc' = "raised"
                /\ UNCHANGED current_schedule
           ELSE /\ pc' = "schedule_resolved"
                /\ current_schedule' = schedule.ret
    /\ UNCHANGED <<cfg, hvac_mode, startup_time, last_ai_optimization, last_recommendations,
                   last_main_fan_speed, last_error, error_count, last_ai_response,
                   outdoor_temperature, room_states, main_ac_running, main_climate_state,
                   needs_ac, recommendations, main_fan_speed, room_idx, ai_outcome,
                   current_time, rooms_stable, now, wall_clock, outdoor_states, last_command, cover_state, notified,
                   advisor_prev_call, advisor_last_call, result,
                   flow_rooms, room_configs, room_to_edit, other, entry_data>>

NextSchedule == ResolveSchedule

SpecSchedule == InitSchedule /\ [][NextSchedule]_vars

-----------------------------------------------------------------------------
(* The main fan on its own: _determine_and_set_main_fan_speed applied to one
   set of room states *)

\* the modes the configuration offers, three settings of the high threshold
\* (the smallest the options form accepts, one degree, the default) and two of
\* the medium threshold
FanConfigs ==
    { [BaseConfig EXCEPT !.main_fan_entity = TRUE,
                         !.hvac_mode = mode,
                         !.main_fan_high_threshold = high,
                         !.main_fan_medium_threshold = medium] :
        mode \in {"cool", "heat", "auto"},
        high \in {5, 10, DEFAULT_MAIN_FAN_HIGH_THRESHOLD},
        medium \in {5, DEFAULT_MAIN_FAN_MEDIUM_THRESHOLD} }

\* the readings the tier is derived from, per room
FanReadings ==
    [r \in Rooms |-> IF r = RoomOrder[1]
                     THEN {NoReading, 190, 195, 200, 210, 215, 220, 225, 230, 235,
                           240, 245, 250, 260}
                     ELSE {NoReading, 190, 200, 205, 215, 220, 225, 230, 240, 245, 250}]

FanReads == {t \in [Rooms -> UNION {FanReadings[r] : r \in Rooms}] :
                 \A r \in Rooms : t[r] \in FanReadings[r]}

\* an optimizer as constructed, about to set the main fan for one collection of
\* room states
InitFan ==
    /\ cfg \in FanConfigs
    /\ InitOptimizer
    /\ pc = "determine_fan"
    /\ room_states \in {collect_room_states(temps, cfg.target_temperature) : temps \in FanReads}
    /\ main_ac_running = FALSE
    /\ main_climate_state = NoClimate
    /\ needs_ac = FALSE
    /\ recommendations = EmptyMap
    /\ main_fan_speed = "None"
    /\ room_idx = 0
    /\ ai_outcome = "None"
    /\ current_time = Never
    /\ rooms_stable = FALSE
    /\ InitHost

\* async_optimize, line 416:
\* main_fan_speed = await self._determine_and_set_main_fan_speed(room_states)
DetermineAndSetMainFanSpeed ==
    /\ pc = "determine_fan"
    /\ \E fan_state \in EntityReads, failed \in BOOLEAN :
        LET fan_speed == determine_fan_speed(room_states)
            effect    == IF ValidRooms(room_states) # {}
                         THEN set_main_fan(fan_speed, fan_state, failed)
                         ELSE NoEffect
        IN  /\ failed => effect.command # NoCommand
            /\ main_fan_speed' = fan_speed
            /\ Apply(effect)
    /\ pc' = "fan_determined"
    /\ cover_state' = "None"
    /\ UNCHANGED <<cfg, hvac_mode, startup_time, last_ai_optimization, last_recommendations,
                   last_main_fan_speed, last_ai_response,
                   current_schedule, outdoor_temperature, room_states, main_ac_running, main_climate_state,
                   needs_ac, recommendations, room_idx, ai_outcome, rooms_stable,
                   current_time, now, wall_clock, outdoor_states, advisor_prev_call, advisor_last_call,
                   result,
                   flow_rooms, room_configs, room_to_edit, other, entry_data>>

NextFan == DetermineAndSetMainFanSpeed

SpecFan == InitFan /\ [][NextFan]_vars

-----------------------------------------------------------------------------
(* The weather adjustment on its own: lines 272-289 of async_optimize applied
   to one state of the outdoor sensor and the weather entity *)

\* influence factors of the options form (0.0 to 1.0 in steps of 0.1) whose
\* adjusted targets are exact in binary, so that round() behaves as py_round_1
WeatherFactors == {0, 4, DEFAULT_WEATHER_INFLUENCE_FACTOR, 10}

\* adjustment on or off, each outdoor source configured or not
WeatherConfigs ==
    { [BaseConfig EXCEPT !.enable_weather_adjustment = enabled,
                         !.outdoor_temp_sensor = sensor,
                         !.weather_entity = weather,
                         !.weather_influence_factor = factor,
                         !.target_temperature = target] :
        enabled \in BOOLEAN, sensor \in BOOLEAN, weather \in BOOLEAN,
        factor \in WeatherFactors,
        target \in {DEFAULT_TARGET_TEMPERATURE, DEFAULT_TARGET_TEMPERATURE + 5} }

\* what the outdoor sources may hold: readings on and next to every step of the
\* adjustment, Celsius or Fahrenheit (59, 86 and 87.8 degrees F)
WeatherStates ==
    { OutdoorStates(sensor, "C", weather) :
        sensor \in {NoReading, 149, 150, 199, 200, 250, 251, 300, 301},
        weather \in {NoReading, 140, 220, 280, 350} }
    \cup
    { OutdoorStates(sensor, "F", weather) :
        sensor \in {590, 860, 878}, weather \in {NoReading, 220} }

\* an optimizer as constructed, about to adjust its target for the weather
InitWeather ==
    /\ cfg \in WeatherConfigs
    /\ InitOptimizer
    /\ pc = "adjust_weather"
    /\ NoLocals
    /\ now = 0
    /\ wall_clock = NoClock
    /\ outdoor_states \in WeatherStates
    /\ last_command = NoCommand
    /\ cover_state = "None"
    /\ notified = {}
    /\ advisor_prev_call = Never
    /\ advisor_last_call = Never
    /\ result = NoResult
    /\ other = NoFrame
    /\ InitEntry

\* async_optimize, lines 272-289: the outdoor lookup, the adjustment and the
\* room states collected with the adjusted target
AdjustForWeather ==
    /\ pc = "adjust_weather"
    /\ \E temps \in SensorReads :
        LET outdoor_temp == IF cfg.enable_weather_adjustment
                            THEN get_outdoor_temperature(outdoor_states) ELSE NoReading
            effective_target == weather_target(scheduled_target(current_schedule), outdoor_temp)
        IN  /\ outdoor_temperature' = IF outdoor_temp # NoReading THEN outdoor_temp
                                      ELSE outdoor_temperature
            /\ room_states' = collect_room_states(temps, effective_target)
    /\ pc' = "weather_adjusted"
    /\ UNCHANGED <<cfg, hvac_mode, startup_time, last_ai_optimization, last_recommendations,
                   last_main_fan_speed, last_error, error_count, last_ai_response,
                   current_schedule, main_ac_running, main_climate_state, needs_ac, recommendations,
                   main_fan_speed, room_idx, ai_outcome, current_time, rooms_stable,
                   now, wall_clock, outdoor_states, last_command, cover_state, notified,
                   advisor_prev_call, advisor_last_call, result,
                   flow_rooms, room_configs, room_to_edit, other, entry_data>>

NextWeather == AdjustForWeather

SpecWeather == InitWeather /\ [][NextWeather]_vars

-----------------------------------------------------------------------------
(* The configuration flows that keep the room list *)

\* the longest room list the flows build
MaxRooms == 3

\* everything but the position of the flow and the room list
cycle_vars == <<cfg, hvac_mode, startup_time, last_ai_optimization, last_recommendations,
                last_main_fan_speed, last_error, error_count, last_ai_response,
                current_schedule, outdoor_temperature,
                room_states, main_ac_running, main_climate_state, needs_ac,
                recommendations, main_fan_speed, room_idx, ai_outcome, current_time,
                rooms_stable, now, wall_clock, outdoor_states, last_command, cover_state,
                notified, advisor_prev_call, advisor_last_call, result, other, entry_data>>

\* ConfigFlow.__init__: the user step is done, the first room form is shown
InitRooms ==
    /\ cfg = BaseConfig
    /\ InitOptimizer
    /\ NoLocals
    /\ now = 0
    /\ wall_clock = NoClock
    /\ outdoor_states = NoOutdoorStates
    /\ last_command = NoCommand
    /\ cover_state = "None"
    /\ notified = {}
    /\ advisor_prev_call = Never
    /\ advisor_last_call = Never
    /\ result = NoResult
    /\ other = NoFrame
    /\ pc = "config_add_room"
    /\ flow_rooms = <<>>
    /\ room_configs = "None"
    /\ room_to_edit = "None"
    /\ entry_data = cfg

\* ConfigFlow.async_step_add_room with a submitted form (the stored room has
\* no humidity key); once the entry is created the options flow keeps the list
ConfigFlowAddRoom ==
    /\ pc = "config_add_room"
    /\ \E user_input \in RoomInputs, validation_errors \in BOOLEAN, add_another \in BOOLEAN :
        IF validation_errors
        THEN UNCHANGED <<pc, flow_rooms, room_configs>>
        ELSE /\ Len(flow_rooms) < MaxRooms
             /\ user_input.humidity_sensor = "None"
             /\ IF add_another
                THEN /\ flow_rooms' = Append(flow_rooms, user_input)
                     /\ UNCHANGED <<pc, room_configs>>
                ELSE \* the entry is created and the flow object is gone
                     /\ room_configs' = Append(flow_rooms, user_input)
                     /\ flow_rooms' = <<>>
                     /\ pc' = "manage_rooms"
    /\ UNCHANGED <<room_to_edit, cycle_vars>>

\* OptionsFlowHandler.async_step_manage_rooms with a chosen action; the select
\* steps return to the menu when there is no room, and "done" ends the flow,
\* the next one starting with _room_to_edit = None
ManageRooms ==
    /\ pc = "manage_rooms"
    /\ \E action \in {"add", "edit", "remove", "done"} :
        /\ pc' = CASE action = "add" -> "add_room"
                   [] action = "edit" ->
                        IF room_configs = <<>> THEN "manage_rooms" ELSE "edit_room_select"
                   [] action = "remove" ->
                        IF room_configs = <<>> THEN "manage_rooms" ELSE "remove_room"
                   [] OTHER -> "manage_rooms"
        /\ room_to_edit' = IF action = "done" THEN "None" ELSE room_to_edit
    /\ UNCHANGED <<flow_rooms, room_configs, cycle_vars>>

\* OptionsFlowHandler.async_step_add_room with a submitted form
OptionsAddRoom ==
    /\ pc = "add_room"
    /\ \E user_input \in RoomInputs, validation_errors \in BOOLEAN :
        IF validation_errors
        THEN UNCHANGED <<pc, room_configs>>
        ELSE /\ Len(room_configs) < MaxRooms
             /\ room_configs' = Append(room_configs, user_input)
             /\ pc' = "manage_rooms"
    /\ UNCHANGED <<flow_rooms, room_to_edit, cycle_vars>>

\* OptionsFlowHandler.async_step_remove_room with a room picked
OptionsRemoveRoom ==
    /\ pc = "remove_room"
    /\ \E room_to_remove \in room_options(room_configs) :
        room_configs' = without_room(room_configs, room_to_remove)
    /\ pc' = "manage_rooms"
    /\ UNCHANGED <<flow_rooms, room_to_edit, cycle_vars>>

\* OptionsFlowHandler.async_step_edit_room_select with a room picked
OptionsEditRoomSelect ==
    /\ pc = "edit_room_select"
    /\ \E picked \in room_options(room_configs) : room_to_edit' = picked
    /\ pc' = "edit_room"
    /\ UNCHANGED <<flow_rooms, room_configs, cycle_vars>>

\* OptionsFlowHandler.async_step_edit_room with a submitted form
OptionsEditRoom ==
    /\ pc = "edit_room"
    /\ \E user_input \in RoomInputs, validation_errors \in BOOLEAN :
        IF room_to_edit \notin room_options(room_configs)
        THEN /\ pc' = "manage_rooms"
             /\ UNCHANGED room_configs
        ELSE IF validation_errors
        THEN UNCHANGED <<pc, room_configs>>
        ELSE /\ room_configs' = with_room_replaced(room_configs, room_to_edit, user_input)
             /\ pc' = "manage_rooms"
    /\ UNCHANGED <<flow_rooms, room_to_edit, cycle_vars>>

NextRooms ==
    \/ ConfigFlowAddRoom
    \/ ManageRooms
    \/ OptionsAddRoom
    \/ OptionsRemoveRoom
    \/ OptionsEditRoomSelect
    \/ OptionsEditRoom

SpecRooms == InitRooms /\ [][NextRooms]_vars

-----------------------------------------------------------------------------
(* The main-unit part of _apply_recommendations on its own: lines 931-937 for
   one configuration, one set of recommendations and one state of the unit *)

\* the three switches the two steps test
ApplyConfigs ==
    { [BaseConfig EXCEPT !.main_climate_entity = unit, !.enable_humidity_control = humidity,
                         !.auto_control_ac_temperature = setpoint] :
        unit \in BOOLEAN, humidity \in BOOLEAN, setpoint \in BOOLEAN }

\* the setpoints and modes a parsed recommendation may carry (NoReading, "None":
\* the key is absent)
ApplySetpoints == {NoReading, 235, 240, 244, 245, 300}
ApplyModes == {"None", "cool", "dry", "auto"}

\* recommendations as _parse_ai_response returns them, the room keys aside
ApplyRecommendations ==
    { [k \in (IF t # NoReading THEN {"ac_temperature"} ELSE {})
             \cup (IF m # "None" THEN {"hvac_mode"} ELSE {}) |->
         IF k = "ac_temperature" THEN t ELSE m] :
        t \in ApplySetpoints, m \in ApplyModes }

\* the states of the unit the two steps read; without a configured unit there
\* is none
ApplyClimates ==
    ClimateReads \cup {ClimateState(TRUE, "dry", "idle", 240)}

InitApply ==
    /\ cfg \in ApplyConfigs
    /\ InitOptimizer
    /\ pc = "set_mode"
    /\ room_states = EmptyMap
    /\ main_ac_running = FALSE
    /\ main_climate_state \in (IF cfg.main_climate_entity THEN ApplyClimates ELSE {NoClimate})
    /\ needs_ac = FALSE
    /\ recommendations \in ApplyRecommendations
    /\ main_fan_speed = "None"
    /\ room_idx = 0
    /\ ai_outcome = "None"
    /\ current_time = Never
    /\ rooms_stable = FALSE
    /\ InitHost

\* _apply_recommendations, lines 931-933, the unit being in main_climate_state
SetHvacMode ==
    /\ pc = "set_mode"
    /\ \E failed \in BOOLEAN :
         LET set == IF hvac_mode_applies(recommendations)
                    THEN set_hvac_mode(recommendations["hvac_mode"], main_climate_state, failed)
                    ELSE [effect |-> NoEffect, hvac_mode |-> hvac_mode]
         IN  /\ failed => set.effect.command # NoCommand
             /\ Apply(set.effect)
             /\ hvac_mode' = set.hvac_mode
    /\ pc' = "set_temp"
    /\ UNCHANGED <<cfg, current_schedule, outdoor_temperature, wall_clock, outdoor_states,
                   rooms_stable, startup_time, last_ai_optimization, last_recommendations,
                   last_main_fan_speed, last_ai_response, room_states, main_ac_running,
                   main_climate_state, needs_ac, recommendations, main_fan_speed, room_idx,
                   ai_outcome, current_time, now, cover_state, advisor_prev_call,
                   advisor_last_call, result, flow_rooms, room_configs, room_to_edit, other, entry_data>>

\* _apply_recommendations, lines 935-937, the unit being in main_climate_state
SetAcTemperature ==
    /\ pc = "set_temp"
    /\ \E failed \in BOOLEAN :
         LET effect == IF ac_temperature_applies(recommendations)
                       THEN set_ac_temperature(recommendations["ac_temperature"],
                                               main_climate_state, failed)
                       ELSE NoEffect
         IN  /\ failed => effect.command # NoCommand
             /\ Apply(effect)
    /\ pc' = "main_unit_set"
    /\ UNCHANGED <<cfg, current_schedule, outdoor_temperature, wall_clock, outdoor_states,
                   rooms_stable, hvac_mode, startup_time, last_ai_optimization,
                   last_recommendations, last_main_fan_speed, last_ai_response, room_states,
                   main_ac_running, main_climate_state, needs_ac, recommendations,
                   main_fan_speed, room_idx, ai_outcome, current_time, now, cover_state,
                   advisor_prev_call, advisor_last_call, result,
                   flow_rooms, room_configs, room_to_edit, other, entry_data>>

NextApply ==
    \/ SetHvacMode
    \/ SetAcTemperature

SpecApply == InitApply /\ [][NextApply]_vars

-----------------------------------------------------------------------------
(* Two invocations of async_optimize that overlap: the optimizer holds no lock,
   so a second invocation made while the first is suspended at an await runs on
   the same optimizer *)

\* the event loop leaves the running invocation at an await (or after its
\* return) and runs the other one: a new invocation when the host has not made
\* it yet, the suspended one otherwise
Switch ==
    /\ \/ pc \in Suspended /\ other.pc \in Suspended \cup {"idle"}
       \/ pc = "done" /\ other.pc \in Suspended
    /\ other' = Frame(pc, room_states, main_ac_running, main_climate_state, needs_ac,
                      recommendations, main_fan_speed, room_idx, ai_outcome, current_time,
                      rooms_stable)
    /\ pc' = other.pc
    /\ room_states' = other.room_states
    /\ main_ac_running' = other.main_ac_running
    /\ main_climate_state' = other.main_climate_state
    /\ needs_ac' = other.needs_ac
    /\ recommendations' = other.recommendations
    /\ main_fan_speed' = other.main_fan_speed
    /\ room_idx' = other.room_idx
    /\ ai_outcome' = other.ai_outcome
    /\ current_time' = other.current_time
    /\ rooms_stable' = other.rooms_stable
    /\ UNCHANGED <<cfg, hvac_mode, startup_time, last_ai_optimization, last_recommendations,
                   last_main_fan_speed, last_error, error_count, last_ai_response,
                   current_schedule, outdoor_temperature, now, wall_clock, outdoor_states,
                   last_command, cover_state, notified, advisor_prev_call, advisor_last_call,
                   result, flow_rooms, room_configs, room_to_edit, entry_data>>

\* an optimizer without a main unit, as async_setup_entry builds it; the
\* invocations overlap within one poll, during which the clock stays where it is
InitOverlap ==
    /\ cfg = BaseConfig
    /\ InitOptimizer
    /\ pc = "idle"
    /\ NoLocals
    /\ InitHost

NextOverlap ==
    \/ StartCycle
    \/ AIRespond
    \/ ApplyRoom
    \/ FinishCycle
    \/ Switch

SpecOverlap == InitOverlap /\ [][NextOverlap]_vars

-----------------------------------------------------------------------------
(* The need decision and the on/off control of the main unit on their own:
   async_optimize lines 291-317, cycle after cycle *)

\* cooling and heating with on/off auto-control, with and without humidity control
HoldConfigs ==
    { [BaseConfig EXCEPT !.main_climate_entity = TRUE,
                         !.auto_control_main_ac = TRUE,
                         !.enable_humidity_control = humidity,
                         !.hvac_mode = mode] :
        mode \in {"cool", "heat"}, humidity \in BOOLEAN }

\* the readings of a cycle, per room: below, inside and above the band around
\* the target of 22.0
HoldReadings ==
    [r \in Rooms |-> IF r = RoomOrder[1] THEN {NoReading, 195, 225, 228, 245}
                     ELSE {NoReading, 225}]

HoldReads == {t \in [Rooms -> UNION {HoldReadings[r] : r \in Rooms}] :
                  \A r \in Rooms : t[r] \in HoldReadings[r]}

\* the states of the unit a cycle may find: the attributes hvac_mode and
\* hvac_action as lines 303-309 read them
HoldClimates ==
    { NoClimate,
      ClimateState(TRUE, "off", "off", 240),
      ClimateState(TRUE, "cool", "cooling", 240),
      ClimateState(TRUE, "heat", "heating", 240),
      ClimateState(TRUE, "None", "cooling", 240),
      ClimateState(TRUE, "None", "idle", 240),
      ClimateState(TRUE, "unavailable", "None", NoReading) }

\* an optimizer as constructed, or with "dry" set by _set_hvac_mode under
\* humidity control
InitHold ==
    /\ cfg \in HoldConfigs
    /\ hvac_mode \in (IF cfg.enable_humidity_control THEN {cfg.hvac_mode, "dry"}
                      ELSE {cfg.hvac_mode})
    /\ startup_time = Never
    /\ last_ai_optimization = Never
    /\ last_recommendations = EmptyMap
    /\ last_main_fan_speed = "None"
    /\ last_error = "None"
    /\ error_count = 0
    /\ last_ai_response = NoResponse
    /\ current_schedule = NoSchedule
    /\ outdoor_temperature = NoReading
    /\ pc = "read_unit"
    /\ NoLocals
    /\ InitHost

\* async_optimize, lines 291-317: the unit's state is read, the need is
\* decided and _control_main_ac acts on it
ControlMainUnit ==
    /\ pc \in {"read_unit", "unit_controlled"}
    /\ \E temps \in HoldReads, cs \in HoldClimates, failed \in BOOLEAN :
        LET rs      == collect_room_states(temps, cfg.target_temperature)
            running == is_main_ac_running(cs)
            needs   == check_if_ac_needed(rs, running)
            ctl     == IF cfg.auto_control_main_ac /\ cfg.main_climate_entity
                       THEN control_main_ac(needs, cs, failed)
                       ELSE NoEffect
        IN  /\ failed => (ctl.command # NoCommand /\ error_count < MaxErr)
            /\ room_states' = rs
            /\ main_climate_state' = cs
            /\ main_ac_running' = running
            /\ needs_ac' = needs
            /\ last_command' = ctl.command
            /\ last_error' = ctl.last_error
            /\ error_count' = ctl.error_count
            /\ notified' = ctl.notified
    /\ pc' = "unit_controlled"
    /\ UNCHANGED <<cfg, hvac_mode, startup_time, last_ai_optimization, last_recommendations,
                   last_main_fan_speed, last_ai_response, current_schedule,
                   outdoor_temperature, recommendations, main_fan_speed, room_idx,
                   ai_outcome, current_time, rooms_stable, now, wall_clock, outdoor_states,
                   cover_state, advisor_prev_call, advisor_last_call, result,
                   flow_rooms, room_configs, room_to_edit, other, entry_data>>

NextHold == ControlMainUnit

SpecHold == InitHold /\ [][NextHold]_vars

-----------------------------------------------------------------------------
(* The settings of the configuration entry: the options flow stores a
   setting and reloads the integration, async_setup_entry builds a new
   optimizer from the entry *)

\* __init__.py, async_setup_entry, lines 52-76: the arguments the optimizer is
\* constructed with; a parameter the call does not pass keeps the default of
\* AirconOptimizer.__init__ (optimizer.py lines 16-50)
async_setup_entry(data) ==
    [ main_climate_entity          |-> data.main_climate_entity,
      main_fan_entity              |-> data.main_fan_entity,
      main_fan_is_climate          |-> data.main_fan_is_climate,
      auto_control_main_ac         |-> data.auto_control_main_ac,
      auto_control_ac_temperature  |-> FALSE,
      enable_humidity_control      |-> FALSE,
      enable_notifications         |-> data.enable_notifications,
      enable_scheduling            |-> FALSE,
      schedules                    |-> <<>>,
      enable_weather_adjustment    |-> FALSE,
      weather_entity               |-> FALSE,
      outdoor_temp_sensor          |-> FALSE,
      weather_influence_factor     |-> DEFAULT_WEATHER_INFLUENCE_FACTOR,
      room_overrides               |-> data.room_overrides,
      hvac_mode                    |-> data.hvac_mode,
      target_temperature           |-> data.target_temperature,
      temperature_deadband         |-> data.temperature_deadband,
      ac_turn_on_threshold         |-> data.ac_turn_on_threshold,
      ac_turn_off_threshold        |-> data.ac_turn_off_threshold,
      main_fan_high_threshold      |-> DEFAULT_MAIN_FAN_HIGH_THRESHOLD,
      main_fan_medium_threshold    |-> DEFAULT_MAIN_FAN_MEDIUM_THRESHOLD,
      ai_optimization_interval     |-> data.ai_optimization_interval ]

\* the forms of the options flow, each a set of submitted inputs
SettingsInputs ==
    [hvac_mode : {"cool", "heat"}, main_climate_entity : BOOLEAN,
     auto_control_main_ac : BOOLEAN, auto_control_ac_temperature : BOOLEAN]

WeatherInputs ==
    [enable_weather_adjustment : BOOLEAN, weather_entity : BOOLEAN]

HumidityInputs == [enable_humidity_control : BOOLEAN]

SchedulingInputs == [enable_scheduling : BOOLEAN]

AdvancedInputs ==
    [main_fan_high_threshold : {10, DEFAULT_MAIN_FAN_HIGH_THRESHOLD},
     main_fan_medium_threshold : {5, DEFAULT_MAIN_FAN_MEDIUM_THRESHOLD},
     weather_influence_factor : {DEFAULT_WEATHER_INFLUENCE_FACTOR, 10}]

\* the longest schedule list the flow builds
MaxSchedules == 1

\* new_data = {**self.config_entry.data, **user_input}
merged(data, user_input) ==
    [k \in DOMAIN data |-> IF k \in DOMAIN user_input THEN user_input[k] ELSE data[k]]

\* the entry as the configuration flow creates it, the optimizer built from it
InitSetup ==
    /\ cfg = BaseConfig
    /\ InitOptimizer
    /\ pc = "idle"
    /\ NoLocals
    /\ InitHost

\* hass.config_entries.async_update_entry(entry, data = new_data) followed by
\* async_reload(entry_id): the old optimizer is dropped (async_unload_entry)
\* and async_setup_entry constructs a new one from the entry, its first
\* refresh about to start
UpdateAndReload(new_data) ==
    /\ entry_data' = new_data
    /\ cfg' = async_setup_entry(new_data)
    /\ hvac_mode' = cfg'.hvac_mode
    /\ startup_time' = Never
    /\ last_ai_optimization' = Never
    /\ last_recommendations' = EmptyMap
    /\ last_main_fan_speed' = "None"
    /\ last_error' = "None"
    /\ error_count' = 0
    /\ last_ai_response' = NoResponse
    /\ current_schedule' = NoSchedule
    /\ outdoor_temperature' = NoReading
    /\ pc' = "idle"
    /\ UNCHANGED <<room_states, main_ac_running, main_climate_state, needs_ac,
                   recommendations, main_fan_speed, room_idx, ai_outcome, current_time,
                   rooms_stable, now, wall_clock, outdoor_states, last_command, cover_state,
                   notified, advisor_prev_call, advisor_last_call, result,
                   flow_rooms, room_configs, room_to_edit, other>>

\* OptionsFlowHandler.async_step_settings with a submitted form
OptionsSettings ==
    /\ pc = "idle"
    /\ \E user_input \in SettingsInputs : UpdateAndReload(merged(entry_data, user_input))

\* OptionsFlowHandler.async_step_weather with a submitted form
OptionsWeather ==
    /\ pc = "idle"
    /\ \E user_input \in WeatherInputs : UpdateAndReload(merged(entry_data, user_input))

\* OptionsFlowHandler.async_step_humidity with a submitted form
OptionsHumidity ==
    /\ pc = "idle"
    /\ \E user_input \in HumidityInputs : UpdateAndReload(merged(entry_data, user_input))

\* OptionsFlowHandler.async_step_enable_scheduling with a submitted form
OptionsEnableScheduling ==
    /\ pc = "idle"
    /\ \E user_input \in SchedulingInputs : UpdateAndReload(merged(entry_data, user_input))

\* OptionsFlowHandler.async_step_add_schedule with a submitted form
OptionsAddSchedule ==
    /\ pc = "idle"
    /\ Len(entry_data.schedules) < MaxSchedules
    /\ \E new_schedule \in {s \in ScheduleChoices : s.schedule_name \in {"Night", "Work"}} :
        UpdateAndReload([entry_data EXCEPT !.schedules = Append(@, new_schedule)])

\* OptionsFlowHandler.async_step_advanced with a submitted form
OptionsAdvanced ==
    /\ pc = "idle"
    /\ \E user_input \in AdvancedInputs : UpdateAndReload(merged(entry_data, user_input))

NextSetup ==
    \/ OptionsSettings
    \/ OptionsWeather
    \/ OptionsHumidity
    \/ OptionsEnableScheduling
    \/ OptionsAddSchedule
    \/ OptionsAdvanced

SpecSetup == InitSetup /\ [][NextSetup]_vars

-----------------------------------------------------------------------------
(* Properties of the cycle *)

\* a step that enters async_optimize and runs it up to the advisory call or to
\* its return
EntersCycle == pc \in {"idle", "done"} /\ now' = now

\* the steps of a cycle after the advisory engine has returned
AfterEngine == {"apply_mode", "apply_temp", "apply_room", "fan"}

\* C1: in a cycle with at least one valid room temperature the advisory service
\* is invoked if and only if none of the skip conditions holds: all rooms stable
\* with a non-empty cache; an earlier advisory call less than the AI interval ago;
\* a main unit configured and not running. In every other cycle it is not invoked.
C1_AdvisoryGate ==
    [][ EntersCycle =>
        LET invoked == pc' = "ai_call"
            rs      == IF invoked THEN room_states' ELSE result'.room_states
            running == IF invoked THEN main_ac_running' ELSE result'.main_ac_running
            read    == DOMAIN rs = Rooms
            some_valid == read /\ \E r \in Rooms : rs[r].current_temperature # NoReading
            stable  == read /\ \A r \in Rooms :
                          /\ rs[r].current_temperature # NoReading
                          /\ Abs(rs[r].current_temperature - rs[r].target_temperature)
                                <= cfg.temperature_deadband
            skip_stable   == stable /\ DOMAIN last_recommendations # {}
            skip_interval == /\ advisor_last_call # Never
                             /\ now - advisor_last_call < update_interval * SecondsPerMinute
            skip_unit     == cfg.main_climate_entity /\ ~running
        IN  invoked <=> (some_valid /\ ~skip_stable /\ ~skip_interval /\ ~skip_unit)
      ]_vars

\* an invocation with a main unit configured, a cache present and an earlier call
C1_Witness ==
    /\ pc = "ai_call"
    /\ cfg.main_climate_entity
    /\ DOMAIN last_recommendations # {}
    /\ advisor_prev_call # Never

\* C2: with serialized cycles, however often a cycle is started, two consecutive
\* advisory requests are at least the configured AI interval apart.
C2_MinimumInterval ==
    advisor_prev_call # Never =>
        advisor_last_call - advisor_prev_call >= update_interval * SecondsPerMinute

\* a second advisory request is in flight
C2_Witness == pc = "ai_call" /\ advisor_prev_call # Never

\* C3: when the advisory call raises, the engine returns the cached set unchanged
\* (the empty map when there is none), records the error message and adds exactly
\* one to error_count; the room positions applied in that cycle are the cached ones.
C3_CacheFallback ==
    [][ /\ (pc = "ai_call" /\ ai_outcome' = "exception") =>
            /\ recommendations' = last_recommendations
            /\ last_recommendations' = last_recommendations
            /\ DOMAIN last_recommendations = {} => DOMAIN recommendations' = {}
            /\ last_error' = "AI API Error"
            /\ error_count' = error_count + 1
        /\ (pc \in AfterEngine /\ ai_outcome = "exception"
                /\ last_command'.service = "set_cover_position") =>
            /\ last_command'.entity \in DOMAIN last_recommendations
            /\ last_command'.value = last_recommendations[last_command'.entity]
      ]_vars

\* a cached position is being applied after a failed advisory call
C3_Witness ==
    /\ ai_outcome = "exception"
    /\ last_command.service = "set_cover_position"
    /\ DOMAIN last_recommendations # {}
    /\ recommendations = last_recommendations

\* the advisory text yields no recommendation object: no JSON object, malformed
\* JSON, or a room value that is not a number
Unparseable(response) ==
    \/ response.kind \in {"nojson", "malformed"}
    \/ /\ response.kind = "json"
       /\ \E r \in Rooms \cap DOMAIN response.obj : response.obj[r].t # "num"

\* C4: an advisory answer from which no recommendation object can be parsed is
\* an advisory failure: error_count grows by one, an error message is recorded,
\* the cycle's recommendations are the cached set and the cache is kept.
C4_ParseFailureFallsBack ==
    [][ /\ (pc = "ai_call" /\ ai_outcome' = "response" /\ Unparseable(last_ai_response')) =>
            /\ error_count' = error_count + 1
            /\ last_error' # "None"
            /\ recommendations' = last_recommendations
        /\ (pc = "fan" /\ ai_outcome = "response" /\ Unparseable(last_ai_response)) =>
            /\ last_recommendations' = last_recommendations
            /\ result'.recommendations = last_recommendations
      ]_vars

\* C5: error_count and last_error are reset only by a cycle whose advisory call
\* succeeded; a cycle whose call raised and fell back to the cache keeps them and
\* reports them in its result.
C5_FallbackKeepsErrors ==
    [][ (pc = "fan" /\ ai_outcome = "exception") =>
            /\ error_count' >= 1
            /\ last_error' # "None"
            /\ result'.error_count = error_count'
            /\ result'.last_error = last_error'
      ]_vars

\* only configured rooms, ac_temperature and hvac_mode, each within its range
ValidRecommendations(recs) ==
    \A k \in DOMAIN recs :
        IF k = "hvac_mode" THEN recs[k] \in {"cool", "heat", "dry", "auto"}
        ELSE IF k = "ac_temperature" THEN recs[k] >= 160 /\ recs[k] <= 300
        ELSE k \in Rooms /\ recs[k] \in 0..100

\* the validated map of a parsed advisory object: rooms and setpoint clamped, a
\* mode outside the four dropped
ClampedFrom(obj, recs) ==
    /\ \A r \in Rooms : r \in DOMAIN recs <=> r \in DOMAIN obj
    /\ \A r \in Rooms \cap DOMAIN recs :
          /\ obj[r].n > 1000 => recs[r] = 100
          /\ obj[r].n < 0 => recs[r] = 0
          /\ (obj[r].n >= 0 /\ obj[r].n <= 1000) =>
                (10 * recs[r] <= obj[r].n /\ obj[r].n < 10 * recs[r] + 10)
    /\ "ac_temperature" \in DOMAIN recs <=> "ac_temperature" \in DOMAIN obj
    /\ "ac_temperature" \in DOMAIN recs =>
          recs["ac_temperature"] =
              (IF obj["ac_temperature"].n > 300 THEN 300
               ELSE IF obj["ac_temperature"].n < 160 THEN 160
               ELSE obj["ac_temperature"].n)

\* C6: the validated map, the cache and every result hold only configured room
\* names, ac_temperature and hvac_mode; a room value is an integer in [0,100]
\* (above 100 is 100, below 0 is 0), ac_temperature is in [16,30], hvac_mode is
\* one of cool, heat, dry, auto; everything else is dropped.
C6_ValidatedRecommendations ==
    /\ ValidRecommendations(recommendations)
    /\ ValidRecommendations(last_recommendations)
    /\ ValidRecommendations(result.recommendations)
    /\ (pc \in AfterEngine /\ ai_outcome = "response" /\ ~Unparseable(last_ai_response)) =>
            ClampedFrom(last_ai_response.obj, recommendations)

\* an answer with a position above 100, a setpoint above 30 and a position below 0
C6_Witness ==
    /\ pc \in AfterEngine
    /\ ai_outcome = "response"
    /\ "ac_temperature" \in DOMAIN recommendations
    /\ last_ai_response.obj["ac_temperature"].n > 300
    /\ last_ai_response.obj["A"].n > 1000
    /\ recommendations["A"] = 100
    /\ recommendations["B"] = 0

\* the room's override "{room}_enabled" is set and False
AIControlDisabled(room) ==
    /\ (room \o "_enabled") \in DOMAIN cfg.room_overrides
    /\ ~cfg.room_overrides[room \o "_enabled"]

\* C7: no position command is ever issued for a room whose override
\* "{room}_enabled" is False, whether the recommendations are fresh or cached;
\* the skip records no error and the remaining rooms are still processed.
C7_DisabledRoomUntouched ==
    [][ /\ last_command'.service = "set_cover_position" =>
            ~AIControlDisabled(last_command'.entity)
        /\ (pc = "apply_room" /\ AIControlDisabled(RoomOrder[room_idx])) =>
            /\ last_command' = NoCommand
            /\ error_count' = error_count
            /\ last_error' = last_error
            /\ notified' = {}
            /\ \A i \in (room_idx + 1)..Len(RoomOrder) :
                  (RoomOrder[i] \in DOMAIN recommendations
                     /\ \A j \in (room_idx + 1)..(i - 1) : RoomOrder[j] \notin DOMAIN recommendations)
                  => (pc' = "apply_room" /\ room_idx' = i)
      ]_vars

\* cached recommendations applied with room A disabled: A skipped, B commanded
C7_Witness ==
    /\ AIControlDisabled("A")
    /\ ai_outcome = "exception"
    /\ "A" \in DOMAIN recommendations
    /\ last_command.service = "set_cover_position"
    /\ last_command.entity = "B"

-----------------------------------------------------------------------------
(* Properties of the need evaluation *)

\* the rooms with a valid reading, their number, the sum of their readings, and
\* the effective target the room states carry
Measured == {r \in Rooms : room_states[r].current_temperature # NoReading}
MeasuredCount == Cardinality(Measured)
MeasuredSum == SumOver([r \in Rooms |-> room_states[r].current_temperature], Measured)
EffectiveTarget == room_states[RoomOrder[1]].target_temperature

\* C8: in cool mode, with the unit off the unit is needed iff the average of the
\* valid readings is at least target + on_threshold; with the unit on it is not
\* needed iff the average is at most target - off_threshold and no valid reading
\* is above the target.
C8_CoolHysteresis ==
    (pc = "need_checked" /\ hvac_mode = "cool" /\ Measured # {}) =>
        IF main_ac_running
        THEN ~needs_ac <=>
                /\ MeasuredSum <= MeasuredCount * (EffectiveTarget - cfg.ac_turn_off_threshold)
                /\ \A r \in Measured : room_states[r].current_temperature <= EffectiveTarget
        ELSE needs_ac <=>
                MeasuredSum >= MeasuredCount * (EffectiveTarget + cfg.ac_turn_on_threshold)

\* unit on, average 20.5 but one room at 22.5 with target 22.0: it stays on
C8_Witness ==
    /\ pc = "need_checked"
    /\ hvac_mode = "cool"
    /\ main_ac_running
    /\ needs_ac
    /\ Measured = Rooms
    /\ MeasuredSum <= MeasuredCount * (EffectiveTarget - cfg.ac_turn_off_threshold)
    /\ \E r \in Measured : room_states[r].current_temperature > EffectiveTarget

\* C9: in heat mode, with the unit off the unit is needed iff the average is at
\* most target - on_threshold; with the unit on it is not needed iff the average
\* is at least target + off_threshold and no valid reading is below the target.
C9_HeatHysteresis ==
    (pc = "need_checked" /\ hvac_mode = "heat" /\ Measured # {}) =>
        IF main_ac_running
        THEN ~needs_ac <=>
                /\ MeasuredSum >= MeasuredCount * (EffectiveTarget + cfg.ac_turn_off_threshold)
                /\ \A r \in Measured : room_states[r].current_temperature >= EffectiveTarget
        ELSE needs_ac <=>
                MeasuredSum <= MeasuredCount * (EffectiveTarget - cfg.ac_turn_on_threshold)

\* unit on, the average warm enough but one room still below the target: it stays on
C9_Witness ==
    /\ pc = "need_checked"
    /\ hvac_mode = "heat"
    /\ main_ac_running
    /\ needs_ac
    /\ Measured = Rooms
    /\ MeasuredSum >= MeasuredCount * (EffectiveTarget + cfg.ac_turn_off_threshold)
    /\ \E r \in Measured : room_states[r].current_temperature < EffectiveTarget

\* C10: with no valid reading the unit is not needed, in every mode and whether
\* or not it is on; in auto mode it is needed iff the average is further than the
\* deadband from the target, whether or not the unit is on.
C10_NoDataAndAuto ==
    /\ (pc = "need_checked" /\ Measured = {}) => ~needs_ac
    /\ (pc = "need_checked" /\ hvac_mode = "auto" /\ Measured # {}) =>
          (needs_ac <=>
              \/ MeasuredSum - MeasuredCount * EffectiveTarget
                    > MeasuredCount * cfg.temperature_deadband
              \/ MeasuredCount * EffectiveTarget - MeasuredSum
                    > MeasuredCount * cfg.temperature_deadband)

\* auto mode, unit on, the average exactly the deadband away: not needed
C10_Witness ==
    /\ pc = "need_checked"
    /\ hvac_mode = "auto"
    /\ main_ac_running
    /\ ~needs_ac
    /\ Measured # {}
    /\ MeasuredSum - MeasuredCount * EffectiveTarget = MeasuredCount * cfg.temperature_deadband

-----------------------------------------------------------------------------
(* Properties of the stability test *)

\* C11: the rooms are stable iff every configured room has a valid current
\* temperature no further than the deadband from its target, the boundary
\* included; one missing reading or one room outside the deadband gives False.
C11_StableIffAllWithinDeadband ==
    pc = "stable_checked" =>
        (rooms_stable <=>
            \A r \in Rooms :
                /\ room_states[r].current_temperature # NoReading
                /\ room_states[r].current_temperature - room_states[r].target_temperature
                      <= cfg.temperature_deadband
                /\ room_states[r].target_temperature - room_states[r].current_temperature
                      <= cfg.temperature_deadband)

\* stable with one room exactly on the deadband boundary
C11_Witness ==
    /\ pc = "stable_checked"
    /\ rooms_stable
    /\ \E r \in Rooms :
          room_states[r].current_temperature - room_states[r].target_temperature
              = cfg.temperature_deadband

-----------------------------------------------------------------------------
(* Properties of the schedule resolution *)

\* the day test of lines 137-149
DayMatches(schedule, clock) ==
    \/ "all" \in schedule.schedule_days
    \/ "weekdays" \in schedule.schedule_days
          /\ clock.day \in {"monday", "tuesday", "wednesday", "thursday", "friday"}
    \/ "weekends" \in schedule.schedule_days /\ clock.day \in {"saturday", "sunday"}
    \/ clock.day \in schedule.schedule_days

\* minutes since midnight
MinuteOfDay(hour, minute) == 60 * hour + minute

\* the window test of lines 166-175
InWindow(schedule, clock) ==
    LET start == MinuteOfDay(schedule.schedule_start_time[1], schedule.schedule_start_time[2])
        end   == MinuteOfDay(schedule.schedule_end_time[1], schedule.schedule_end_time[2])
        t     == MinuteOfDay(clock.hour, clock.minute)
    IN  IF start <= end THEN start <= t /\ t <= end
        ELSE t >= start \/ t <= end

\* C12: an enabled schedule whose days match today is active iff the wall clock
\* is inside its window: start <= t <= end when start <= end, and t >= start or
\* t <= end when the window crosses midnight.
C12_WindowDecidesActive ==
    (/\ pc # "resolve_schedule"
     /\ cfg.enable_scheduling
     /\ Len(cfg.schedules) = 1
     /\ cfg.schedules[1].schedule_enabled
     /\ DayMatches(cfg.schedules[1], wall_clock)) =>
        /\ pc = "schedule_resolved"
        /\ current_schedule = cfg.schedules[1] <=> InWindow(cfg.schedules[1], wall_clock)

\* the configured positions of the schedules that are enabled and match day and time
MatchingSchedules ==
    {i \in 1..Len(cfg.schedules) :
        /\ cfg.schedules[i].schedule_enabled
        /\ DayMatches(cfg.schedules[i], wall_clock)
        /\ InWindow(cfg.schedules[i], wall_clock)}

\* C13: the resolver returns the first schedule in configured order that is
\* enabled and matches day and time, the earlier one when windows overlap, and
\* None when scheduling is disabled, no schedule exists or none matches.
C13_FirstMatchWins ==
    pc # "resolve_schedule" =>
        /\ pc = "schedule_resolved"
        /\ IF cfg.enable_scheduling /\ MatchingSchedules # {}
           THEN \E i \in MatchingSchedules :
                    /\ \A j \in MatchingSchedules : i <= j
                    /\ current_schedule = cfg.schedules[i]
           ELSE current_schedule = NoSchedule

-----------------------------------------------------------------------------
(* Properties of the main fan tier *)

\* the spread of the valid readings is at most / at least x
SpreadAtMost(x) == \A r \in Measured, q \in Measured :
                       room_states[r].current_temperature
                         - room_states[q].current_temperature <= x
SpreadAtLeast(x) == \E r \in Measured, q \in Measured :
                       room_states[r].current_temperature
                         - room_states[q].current_temperature >= x

\* the mean deviation from the target, multiplied by the number of readings
MeanDeviationTimesCount == MeasuredSum - MeasuredCount * EffectiveTarget

\* some room deviates from the target by at least x upwards / downwards
SomeRoomAbove(x) == \E r \in Measured :
                        room_states[r].current_temperature - EffectiveTarget >= x
SomeRoomBelow(x) == \E r \in Measured :
                        room_states[r].current_temperature - EffectiveTarget <= 0 - x

\* spread at most 1.0 and mean deviation at most 0.5 in magnitude
AtEquilibrium ==
    /\ SpreadAtMost(10)
    /\ MeanDeviationTimesCount <= 5 * MeasuredCount
    /\ MeanDeviationTimesCount >= (0 - 5) * MeasuredCount

\* the tier has been derived from at least one valid reading
TierDerived == pc = "fan_determined" /\ Measured # {}

\* C14: whenever the spread is at most 1.0 and the mean deviation is at most 0.5
\* in magnitude (both inclusive), the tier is low, in every mode and whatever
\* the mode's own rules would give.
C14_EquilibriumIsLow ==
    (TierDerived /\ AtEquilibrium) => main_fan_speed = "low"

\* the boundary case in cool mode where the high rule would apply as well
C14_Witness ==
    /\ TierDerived
    /\ hvac_mode = "cool"
    /\ SpreadAtLeast(10) /\ SpreadAtMost(10)
    /\ MeanDeviationTimesCount = 5 * MeasuredCount
    /\ MeanDeviationTimesCount >= cfg.main_fan_high_threshold * MeasuredCount
    /\ main_fan_speed = "low"
    /\ last_command # NoCommand
    /\ last_command.mode = "low"

\* the tier the cool rules give: high by the mean deviation or by one hot room
\* in an uneven house, low when over-cooled or close to the target
ExpectedCoolTier ==
    IF \/ MeanDeviationTimesCount >= cfg.main_fan_high_threshold * MeasuredCount
       \/ (SomeRoomAbove(30) /\ SpreadAtLeast(20))
    THEN "high"
    ELSE IF \/ MeanDeviationTimesCount <= (0 - 5) * MeasuredCount
            \/ /\ MeanDeviationTimesCount < cfg.main_fan_medium_threshold * MeasuredCount
               /\ ~SomeRoomAbove(20)
    THEN "low"
    ELSE "medium"

\* the same rules with the signs reversed, on the coldest room
ExpectedHeatTier ==
    IF \/ MeanDeviationTimesCount <= (0 - cfg.main_fan_high_threshold) * MeasuredCount
       \/ (SomeRoomBelow(30) /\ SpreadAtLeast(20))
    THEN "high"
    ELSE IF \/ MeanDeviationTimesCount >= 5 * MeasuredCount
            \/ /\ MeanDeviationTimesCount > (0 - cfg.main_fan_medium_threshold) * MeasuredCount
               /\ ~SomeRoomBelow(20)
    THEN "low"
    ELSE "medium"

C16_AutoTier ==
    (TierDerived /\ ~AtEquilibrium /\ hvac_mode = "auto") =>
        /\ main_fan_speed = "high"
              <=> (SomeRoomAbove(30) \/ SomeRoomBelow(30) \/ SpreadAtLeast(30))
        /\ main_fan_speed \in {"high", "medium"}

\* auto mode, one room exactly 3.0 from the target and the spread below 3: high
C16_Witness ==
    /\ TierDerived
    /\ ~AtEquilibrium
    /\ hvac_mode = "auto"
    /\ SomeRoomBelow(30) /\ ~SomeRoomBelow(31) /\ ~SomeRoomAbove(1)
    /\ ~SpreadAtLeast(30)
    /\ main_fan_speed = "high"

\* cool mode, the mean deviation exactly the configured high threshold
MeanAtHighThreshold ==
    /\ TierDerived
    /\ hvac_mode = "cool"
    /\ MeanDeviationTimesCount = cfg.main_fan_high_threshold * MeasuredCount

\* C17 as stated: in cool mode, for every configured high threshold, readings
\* whose mean deviation is exactly that threshold give the tier high.
C17_AtHighThresholdIsHigh ==
    MeanAtHighThreshold => main_fan_speed = "high"

\* C17: in cool mode, readings whose mean deviation is exactly the configured
\* high threshold give the tier high unless the equilibrium rule applies to
\* them, which gives low; it can apply only under a high threshold of 0.5.
C17_AtHighThresholdUnlessEquilibrium ==
    MeanAtHighThreshold =>
        /\ main_fan_speed = (IF AtEquilibrium THEN "low" ELSE "high")
        /\ AtEquilibrium => cfg.main_fan_high_threshold <= 5

\* the default threshold met exactly by the mean, no room 3.0 above the target
C17_Witness ==
    /\ MeanAtHighThreshold
    /\ cfg.main_fan_high_threshold = DEFAULT_MAIN_FAN_HIGH_THRESHOLD
    /\ ~SomeRoomAbove(30)
    /\ main_fan_speed = "high"

-----------------------------------------------------------------------------
(* Properties of the whole cycle under failures and feature flags *)

\* C18: whatever the sensors, the advisory service and the actuators do and
\* whichever features are switched on (scheduling with configured schedules
\* among them), a cycle that ends has returned a result record: no exception
\* leaves async_optimize.
C18_OptimizeAlwaysReturns ==
    pc = "done" => result.kind \in {"full", "no_data"}

\* the cycle that starts in this step ends with no valid reading in any room
EndsWithoutData ==
    /\ EntersCycle
    /\ pc' = "done"
    /\ DOMAIN result'.room_states = Rooms
    /\ \A r \in Rooms : result'.room_states[r].current_temperature = NoReading

\* the startup grace period is over in the state the step leads to
GraceElapsed == now' - startup_time' >= DEFAULT_STARTUP_DELAY

\* C19: a cycle that finds no valid room temperature ends early: the advisory
\* service is not invoked, no room position and no fan tier is commanded, the
\* result has empty recommendations and needs_ac False, and the cache, the cached
\* fan tier and the time of the last advisory run stay as they were; the "no
\* data" notification goes out (notifications being enabled) exactly when the
\* startup grace period has elapsed, and within it the result reports no error
\* and an error count of 0.
C19_NoDataEndsEarly ==
    [][ EndsWithoutData =>
          /\ advisor_last_call' = advisor_last_call
          /\ last_command'.service \notin {"set_cover_position", "set_fan_mode",
                                           "set_preset_mode"}
          /\ result'.recommendations = EmptyMap
          /\ result'.needs_ac = FALSE
          /\ last_recommendations' = last_recommendations
          /\ last_main_fan_speed' = last_main_fan_speed
          /\ last_ai_optimization' = last_ai_optimization
          /\ cfg.enable_notifications =>
                ("No Temperature Data" \in notified' <=> GraceElapsed)
          /\ ~cfg.enable_notifications => notified' = {}
          /\ ~GraceElapsed => (result'.last_error = "None" /\ result'.error_count = 0)
      ]_vars

\* a cycle without data right as the grace period runs out, with a cache from
\* an earlier advisory run still in place and the notification sent
C19_Witness ==
    /\ pc = "done"
    /\ DOMAIN result.room_states = Rooms
    /\ \A r \in Rooms : result.room_states[r].current_temperature = NoReading
    /\ now - startup_time = DEFAULT_STARTUP_DELAY
    /\ DOMAIN last_recommendations # {}
    /\ "No Temperature Data" \in notified

\* the target a cycle works with according to the configuration, the clock the
\* cycle read and the outdoor temperature it holds: the first matching
\* schedule's target or else the base target, then the weather shift
ExpectedTargets ==
    LET active == cfg.enable_scheduling /\ MatchingSchedules # {}
        first  == CHOOSE i \in MatchingSchedules : \A j \in MatchingSchedules : i <= j
        base   == IF active THEN cfg.schedules[first].schedule_target_temp
                  ELSE cfg.target_temperature
    IN  IF cfg.enable_weather_adjustment /\ outdoor_temperature # NoReading
        THEN {base, calculate_weather_adjusted_target(base, outdoor_temperature)}
        ELSE {base}

\* C20: the effective target of a cycle is the base target when no schedule is
\* active and the active schedule's target when one is, then shifted by the
\* weather adjustment, and every room state of the cycle carries it (the need
\* decision, the stability test and the fan tier read it from there).
C20_EffectiveTargetCarried ==
    [][ EntersCycle =>
          LET rs == IF pc' = "ai_call" THEN room_states' ELSE result'.room_states
          IN  /\ DOMAIN rs = Rooms
              /\ \A r \in Rooms : rs[r].target_temperature \in ExpectedTargets'
      ]_vars

-----------------------------------------------------------------------------
(* Properties of the weather adjustment *)

\* the outdoor temperature the sources yield: the sensor's when it is configured
\* and has a valid reading (converted from Fahrenheit), else the weather
\* entity's when it is configured and has one
OutdoorYield ==
    IF cfg.outdoor_temp_sensor /\ outdoor_states.sensor # NoReading
    THEN IF outdoor_states.unit = "F"
         THEN CHOOSE c \in -500..600 : c * 9 = (outdoor_states.sensor - 320) * 5
         ELSE outdoor_states.sensor
    ELSE IF cfg.weather_entity /\ outdoor_states.weather # NoReading
    THEN outdoor_states.weather
    ELSE NoReading

\* the step of the adjustment in thousandths of a degree per tenth of factor
WeatherStep(outdoor) ==
    IF outdoor > 300 THEN 0 - 50
    ELSE IF outdoor > 250 THEN 0 - 25
    ELSE IF outdoor >= 200 THEN 0
    ELSE IF outdoor >= 150 THEN 25
    ELSE 50

\* every room state carries the target t
AllRoomsCarry(t) ==
    /\ DOMAIN room_states = Rooms
    /\ \A r \in Rooms : room_states[r].target_temperature = t

\* C21: with an outdoor reading, the adjustment is -0.5 above 30, -0.25 above 25
\* up to 30, 0 from 20 to 25, +0.25 from 15 to below 20 and +0.5 below 15, times
\* the influence factor, and the adjusted target is a nearest tenth of a degree
\* of target + adjustment; for a factor in [0,1] it is at most 0.5 away from the
\* target it was computed from.
C21_WeatherStepFunction ==
    (pc = "weather_adjusted" /\ cfg.enable_weather_adjustment /\ OutdoorYield # NoReading) =>
        LET exact == cfg.target_temperature * 100
                       + WeatherStep(OutdoorYield) * cfg.weather_influence_factor
        IN  /\ \E t \in (cfg.target_temperature - 10)..(cfg.target_temperature + 10) :
                  /\ AllRoomsCarry(t)
                  /\ Abs(t * 100 - exact) <= 50
                  /\ Abs(t - cfg.target_temperature) <= 5
            /\ outdoor_temperature = OutdoorYield

\* hot weather from a Fahrenheit sensor at full influence: the target dropped by
\* exactly 0.5
C21_Witness ==
    /\ pc = "weather_adjusted"
    /\ cfg.enable_weather_adjustment
    /\ cfg.outdoor_temp_sensor
    /\ outdoor_states.unit = "F"
    /\ OutdoorYield > 300
    /\ cfg.weather_influence_factor = 10
    /\ AllRoomsCarry(cfg.target_temperature - 5)

\* C22: with the weather adjustment disabled, or enabled while neither the
\* outdoor sensor nor the weather entity yields a valid reading, the adjustment
\* is 0: the room states carry the base target unchanged.
C22_NoReadingNoAdjustment ==
    (pc = "weather_adjusted" /\ (~cfg.enable_weather_adjustment \/ OutdoorYield = NoReading)) =>
        AllRoomsCarry(cfg.target_temperature)

\* adjustment enabled at a non-zero factor, both sources configured, neither
\* with a reading
C22_Witness ==
    /\ pc = "weather_adjusted"
    /\ cfg.enable_weather_adjustment
    /\ cfg.weather_influence_factor > 0
    /\ cfg.outdoor_temp_sensor /\ cfg.weather_entity
    /\ outdoor_states.sensor = NoReading /\ outdoor_states.weather = NoReading
    /\ AllRoomsCarry(cfg.target_temperature)

-----------------------------------------------------------------------------
(* Properties of the main unit's on/off control *)

\* the mode the configuration switches the unit on in: auto is sent as cool
ConfiguredOnMode == IF cfg.hvac_mode # "auto" THEN cfg.hvac_mode ELSE "cool"

\* C23: with auto-control enabled and a main unit configured, a unit that is
\* needed and off gets exactly one command switching it to the configured HVAC
\* mode (auto sent as cool) and a notification; a unit that is not needed and on
\* gets exactly one command switching it off and a notification; in every other
\* case, and always with auto-control disabled, no mode command is issued.
C23_OnOffControl ==
    [][ (EntersCycle /\ (pc' = "ai_call" \/ DOMAIN result'.room_states = Rooms)) =>
        LET invoked == pc' = "ai_call"
            cs      == IF invoked THEN main_climate_state' ELSE result'.main_climate_state
            needs   == IF invoked THEN needs_ac' ELSE result'.needs_ac
            is_off  == cs.found /\ cs.hvac_mode = "off"
            is_on   == cs.found /\ cs.hvac_mode \notin {"None", "off"}
            sent    == last_command'
        IN  IF cfg.auto_control_main_ac /\ cfg.main_climate_entity /\ needs /\ is_off
            THEN /\ sent.service = "set_hvac_mode"
                 /\ sent.mode = ConfiguredOnMode
                 /\ (cfg.enable_notifications /\ ~sent.failed) => "AC Turned On" \in notified'
            ELSE IF cfg.auto_control_main_ac /\ cfg.main_climate_entity /\ ~needs /\ is_on
            THEN /\ sent.service = "set_hvac_mode"
                 /\ sent.mode = "off"
                 /\ (cfg.enable_notifications /\ ~sent.failed) => "AC Turned Off" \in notified'
            ELSE sent.service # "set_hvac_mode"
      ]_vars

-----------------------------------------------------------------------------
(* Properties of the configuration *)

\* C28: the configuration is fixed at construction: no step of a cycle changes
\* a configuration field, and the HVAC mode that selects the hysteresis branch,
\* the fan-tier branch and the switch-on mode is the configured one in every
\* cycle, also after an advisory-recommended mode change was applied.
C28_ConfigurationFixed ==
    [][cfg' = cfg /\ hvac_mode' = hvac_mode /\ hvac_mode = cfg.hvac_mode]_vars

-----------------------------------------------------------------------------
(* Properties of the application of recommendations *)

\* C24: within one application of recommendations the setpoint command (if any)
\* comes first, then the HVAC-mode command (if any), then the room position
\* commands: no setpoint command follows a mode or a position command, and no
\* mode command follows a position command.
C24_SetpointModeRooms ==
    [][ (pc \in AfterEngine) =>
          /\ last_command'.service = "set_temperature" =>
                last_command.service \notin {"set_hvac_mode", "set_cover_position"}
          /\ last_command'.service = "set_hvac_mode" =>
                last_command.service # "set_cover_position"
      ]_vars

\* the cycle that starts in this step has valid data and ends without the
\* advisory engine being invoked
SkipsEngine ==
    /\ EntersCycle
    /\ pc' = "done"
    /\ DOMAIN result'.room_states = Rooms
    /\ \E r \in Rooms : result'.room_states[r].current_temperature # NoReading

\* what a skipped cycle reuses and leaves alone
ReusesCache ==
    /\ result'.recommendations = last_recommendations
    /\ result'.main_fan_speed = last_main_fan_speed
    /\ last_recommendations' = last_recommendations
    /\ last_main_fan_speed' = last_main_fan_speed
    /\ last_ai_optimization' = last_ai_optimization
    /\ advisor_last_call' = advisor_last_call
    /\ last_command'.service \notin {"set_cover_position", "set_temperature",
                                     "set_fan_mode", "set_preset_mode"}

\* C25 as stated: a cycle with valid data that skips the advisory engine reuses
\* the cached recommendations and fan tier, issues no position, setpoint, mode
\* or fan-tier command from the application of recommendations, and leaves the
\* cache, the cached fan tier, the error counter and the time of the last
\* advisory run unchanged.
C25_SkippedCycleChangesNothing ==
    [][ SkipsEngine => (ReusesCache /\ error_count' = error_count) ]_vars

\* C25: a cycle with valid data that skips the advisory engine reuses the cached
\* recommendations and fan tier, issues no command other than the on/off command
\* of the main unit's auto-control, and leaves the cache, the cached fan tier and
\* the time of the last advisory run unchanged; the error counter changes only
\* when that on/off command fails, by one.
C25_SkippedCycleReusesCache ==
    [][ SkipsEngine =>
          /\ ReusesCache
          /\ last_command'.service = "set_hvac_mode" =>
                /\ cfg.auto_control_main_ac
                /\ last_command'.mode = (IF ~result'.needs_ac THEN "off"
                                         ELSE IF hvac_mode # "auto" THEN hvac_mode
                                         ELSE "cool")
          /\ error_count' = (IF last_command'.failed THEN error_count + 1 ELSE error_count)
      ]_vars

\* a skipped cycle with a cache in place whose on/off command failed
C25_Witness ==
    /\ pc = "done"
    /\ DOMAIN result.room_states = Rooms
    /\ \E r \in Rooms : result.room_states[r].current_temperature # NoReading
    /\ DOMAIN last_recommendations # {}
    /\ result.recommendations = last_recommendations
    /\ last_command.service = "set_hvac_mode"
    /\ last_command.failed
    /\ result.error_count = 1

\* the positions in the configured order, after `from`, of the rooms that the
\* recommendations name
LaterRooms(from) == {i \in (from + 1)..Len(RoomOrder) : RoomOrder[i] \in DOMAIN recommendations}

\* C26: in the room loop a room that is not overridden and whose actuator is
\* available receives its position command whatever happened to the rooms
\* before it, a failed command included; a room whose actuator is missing or
\* unavailable gets no command and no error is recorded; after every room the
\* loop goes on to the next room named by the recommendations, and after the
\* last one the cycle ends with a result record.
C26_RoomFailureDoesNotStop ==
    [][ /\ (pc = "apply_room") =>
            LET room == RoomOrder[room_idx]
            IN  /\ IF AIControlDisabled(room) \/ cover_state' \in {"missing", "unavailable"}
                   THEN /\ last_command' = NoCommand
                        /\ last_error' = last_error
                        /\ error_count' = error_count
                        /\ notified' = {}
                   ELSE /\ last_command'.service = "set_cover_position"
                        /\ last_command'.entity = room
                        /\ last_command'.value = recommendations[room]
                        /\ error_count' = (IF last_command'.failed THEN error_count + 1
                                           ELSE error_count)
                /\ IF LaterRooms(room_idx) = {}
                   THEN pc' = "fan"
                   ELSE /\ pc' = "apply_room"
                        /\ room_idx' \in LaterRooms(room_idx)
                        /\ \A i \in LaterRooms(room_idx) : room_idx' <= i
        /\ (pc = "fan" /\ pc' # "fan") => (pc' = "done" /\ result'.kind = "full")
      ]_vars

\* the second room commanded after the first room's command failed in the same
\* application
C26_Witness ==
    /\ pc = "fan"
    /\ last_error = "Cover Control Error"
    /\ last_command.service = "set_cover_position"
    /\ last_command.entity = RoomOrder[2]
    /\ ~last_command.failed

\* C27: after any sequence of add-room, edit-room and remove-room operations
\* of the configuration flows, no two rooms of the stored room list have the
\* same name
C27_RoomNamesDistinct ==
    room_configs # "None" =>
        \A i, j \in 1..Len(room_configs) :
            i # j => room_configs[i].room_name # room_configs[j].room_name

\* C29: a step in which an actuation command fails records an error and
\* increments the error counter, and a result record returned by that step
\* reports the incremented counter and the recorded error
C29_CommandFailureCounted ==
    [][ last_command'.failed =>
            /\ error_count' = error_count + 1
            /\ last_error' # "None"
            /\ (result' # NoResult =>
                    /\ result'.error_count = error_count'
                    /\ result'.last_error = last_error') ]_vars

\* the strings of both times parse and datetime.time accepts them (lines 158-163)
WellFormed(schedule) ==
    /\ schedule.schedule_start_time[1] \in 0..23 /\ schedule.schedule_start_time[2] \in 0..59
    /\ schedule.schedule_end_time[1] \in 0..23 /\ schedule.schedule_end_time[2] \in 0..59

\* C30: with a schedule of malformed start or end time in the list, the
\* resolver still returns: the first schedule in configured order that is well
\* formed, enabled and matches day and time, or None when there is none
C30_MalformedScheduleSkipped ==
    (/\ pc # "resolve_schedule"
     /\ cfg.enable_scheduling
     /\ \E i \in 1..Len(cfg.schedules) : ~WellFormed(cfg.schedules[i])) =>
        LET valid == {i \in MatchingSchedules : WellFormed(cfg.schedules[i])}
        IN  /\ pc = "schedule_resolved"
            /\ IF valid # {}
               THEN \E i \in valid :
                        /\ \A j \in valid : i <= j
                        /\ current_schedule = cfg.schedules[i]
               ELSE current_schedule = NoSchedule

-----------------------------------------------------------------------------
(* Properties of the main-unit commands of _apply_recommendations *)

-----------------------------------------------------------------------------
(* Properties of consecutive cycles *)

\* C32: a failed advisory call is not repeated within its cycle, and the cycle
\* that follows a cycle whose advisory call failed invokes the advisory service
\* again when it has a valid reading, the unit is running (or not configured)
\* and the rooms are not all stable
C32_NextPollRetries ==
    [][ /\ (pc \notin {"idle", "done"}) => advisor_last_call' = advisor_last_call
        /\ (EntersCycle /\ ai_outcome = "exception") =>
            LET invoked == pc' = "ai_call"
                rs      == IF invoked THEN room_states' ELSE result'.room_states
                running == IF invoked THEN main_ac_running' ELSE result'.main_ac_running
                read    == DOMAIN rs = Rooms
                some_valid == read /\ \E r \in Rooms : rs[r].current_temperature # NoReading
                stable  == read /\ \A r \in Rooms :
                              /\ rs[r].current_temperature # NoReading
                              /\ Abs(rs[r].current_temperature - rs[r].target_temperature)
                                    <= cfg.temperature_deadband
            IN  (some_valid /\ ~stable /\ (cfg.main_climate_entity => running)) => invoked
      ]_vars

-----------------------------------------------------------------------------
(* Properties of overlapping invocations *)

\* C33: nothing in the optimizer keeps two invocations apart: two advisory
\* requests less than the AI interval apart occur, and they occur only when a
\* second invocation has run while another was suspended at an await
C33_IntervalBrokenOnlyByOverlap ==
    (/\ advisor_prev_call # Never
     /\ advisor_last_call - advisor_prev_call < cfg.ai_optimization_interval) =>
        other.pc # "idle"

\* both invocations passed the gate and made their request within one interval,
\* both have returned, one having written the error fields and the other the cache
C33_Witness ==
    /\ pc = "done"
    /\ other.pc = "done"
    /\ advisor_prev_call # Never
    /\ advisor_last_call - advisor_prev_call < cfg.ai_optimization_interval
    /\ {ai_outcome, other.ai_outcome} = {"exception", "response"}
    /\ DOMAIN last_recommendations # {}
    /\ last_ai_optimization # Never

-----------------------------------------------------------------------------
(* Properties of the hold zone *)

\* the average of the valid readings lies strictly inside the band of the
\* configured mode: (target - off, target + on) when cooling,
\* (target - on, target + off) when heating
InHoldZone ==
    LET valid  == ValidRooms(room_states)
        n      == Cardinality(valid)
        sum    == SumOver(CurrentTemps(room_states), valid)
        target == first_room_target(room_states)
        below  == IF cfg.hvac_mode = "cool" THEN cfg.ac_turn_off_threshold
                  ELSE cfg.ac_turn_on_threshold
        above  == IF cfg.hvac_mode = "cool" THEN cfg.ac_turn_on_threshold
                  ELSE cfg.ac_turn_off_threshold
    IN  /\ valid # {}
        /\ cfg.hvac_mode \in {"cool", "heat"}
        /\ sum > n * (target - below)
        /\ sum < n * (target + above)

\* C34: in a cycle whose average is inside the hold zone the need decision
\* equals the unit's running state and the controller issues no on/off command
C34_HoldZoneKeepsState ==
    (pc = "unit_controlled" /\ InHoldZone) =>
        /\ needs_ac = main_ac_running
        /\ last_command = NoCommand

-----------------------------------------------------------------------------
(* Properties of the fan recommendation sensor *)

\* C35: with the default thresholds, the tier the sensor's own calculation
\* gives for the room states and the mode equals the tier the optimizer
\* derived from them
C35_SensorMatchesOptimizer ==
    (/\ pc = "fan_determined"
     /\ ValidRooms(room_states) # {}
     /\ cfg.main_fan_high_threshold = DEFAULT_MAIN_FAN_HIGH_THRESHOLD
     /\ cfg.main_fan_medium_threshold = DEFAULT_MAIN_FAN_MEDIUM_THRESHOLD) =>
        native_value("None", room_states, hvac_mode) = main_fan_speed

-----------------------------------------------------------------------------
(* Properties of the setup from the configuration entry *)

\* the settings the claim lists
OptionFields ==
    {"enable_scheduling", "schedules", "enable_weather_adjustment", "weather_entity",
     "outdoor_temp_sensor", "enable_humidity_control", "auto_control_ac_temperature",
     "main_fan_high_threshold", "main_fan_medium_threshold", "weather_influence_factor"}

\* C36: after an options step has stored its setting and the integration was
\* reloaded, every one of the listed settings of the optimizer equals the
\* stored one
C36_OptimizerHoldsStoredSettings ==
    \A f \in OptionFields : cfg[f] = entry_data[f]

-----------------------------------------------------------------------------
(* Properties of the cache and the timestamp *)

\* C37: between cycles a non-empty cache of recommendations comes with a set
\* timestamp of the last advisory run, and no cycle has ended in the TypeError
\* of the data-only branch (line 431 subtracting an unset timestamp)
C37_CacheImpliesTimestamp ==
    (pc \in {"idle", "done"}) =>
        /\ (DOMAIN last_recommendations # {} => last_ai_optimization # Never)
        /\ result.kind # "TypeError"

\* a cycle took the data-only branch with the unit running (or none
\* configured), reusing a non-empty cache
C37_Witness ==
    /\ pc = "done"
    /\ result.kind = "full"
    /\ ai_outcome = "None"
    /\ unit_allows_ai(result.main_ac_running)
    /\ DOMAIN last_recommendations # {}
    /\ result.recommendations = last_recommendations
    /\ last_ai_optimization # Never

-----------------------------------------------------------------------------
(* Properties of the cycle that switches the main unit on *)

\* the main-unit controller switched the unit on in the step
SwitchesOn ==
    /\ pc \in {"idle", "done"}
    /\ now' = now
    /\ last_command'.service = "set_hvac_mode"
    /\ last_command'.mode # "off"

-----------------------------------------------------------------------------
(* Properties of the cycle without a valid temperature *)

\* the cycle starting in the step finds the unit with a mode other than off
\* and no room with a valid temperature
NoDataWithUnitOn ==
    /\ pc \in {"idle", "done"}
    /\ now' = now
    /\ cfg.auto_control_main_ac
    /\ cfg.main_climate_entity
    /\ result'.kind = "no_data"
    /\ result'.main_climate_state.found
    /\ result'.main_climate_state.hvac_mode \notin {"None", "off"}

\* C39: a cycle without a valid temperature, with auto-control enabled and
\* the unit's reported mode not off, decides that the unit is not needed and
\* commands it off before the early return, also during the startup grace
\* period
C39_NoDataSwitchesOff ==
    [][ NoDataWithUnitOn =>
            /\ ~check_if_ac_needed(result'.room_states, result'.main_ac_running)
            /\ last_command'.service = "set_hvac_mode"
            /\ last_command'.entity = "main_climate"
            /\ last_command'.mode = "off" ]_vars

\* a cycle inside the startup grace period returned without data after
\* commanding the unit off
C39_Witness ==
    /\ pc = "done"
    /\ result.kind = "no_data"
    /\ in_startup_delay(now, startup_time)
    /\ result.main_climate_state.hvac_mode = "cool"
    /\ last_command.service = "set_hvac_mode"
    /\ last_command.mode = "off"
    /\ ~last_command.failed
    /\ "AC Turned Off" \in notified

-----------------------------------------------------------------------------
(* Liveness of the advisory engine *)

\* the latest cycle returned without the premises of the claim: it had no
\* valid reading (or raised), every room was inside the deadband, or a
\* configured main unit was not running
PremiseBroken ==
    /\ pc = "done"
    /\ \/ result.kind # "full"
       \/ check_rooms_stable(result.room_states)
       \/ ~unit_allows_ai(result.main_ac_running)

\* an advisory run has been recorded and the interval after it can elapse
\* within the model's horizon
RunRecorded ==
    /\ last_ai_optimization # Never
    /\ last_ai_optimization + cfg.ai_optimization_interval <= MaxTime

\* C40: after an advisory run the advisory service is invoked again
\* unless a later cycle lacks a valid reading, finds every room inside the
\* deadband or finds the unit not running; and a poll at which the interval
\* since the previous run has elapsed and the premises hold makes the request
C40_EngineInvokedAgain ==
    /\ RunRecorded ~> (advisor_last_call > last_ai_optimization \/ PremiseBroken)
    /\ [][ (/\ pc \in {"idle", "done"}
            /\ now' = now
            /\ last_ai_optimization # Never
            /\ now - last_ai_optimization >= cfg.ai_optimization_interval
            /\ pc' = "done") => PremiseBroken' ]_vars

\* the advisory request went out again, a full interval after the previous one
C40_Witness ==
    /\ pc = "ai_call"
    /\ advisor_prev_call # Never
    /\ last_ai_optimization = advisor_prev_call
    /\ advisor_last_call = now
    /\ advisor_last_call - advisor_prev_call >= cfg.ai_optimization_interval
    /\ ~rooms_stable
    /\ unit_allows_ai(main_ac_running)

====
